---- MODULE Spec2Model ----
(***************************************************************************)
(* Worker-pool-to-machine-class generation of the KubeVirt provider        *)
(* extension (pkg/controller/worker/machines.go), its config extractors    *)
(* (pkg/apis/kubevirt/helper) and the shoot admission validator            *)
(* (pkg/admission/validator/shoot.go).                                     *)
(*                                                                         *)
(* Go values are represented as follows: a pointer is a sequence of        *)
(* length 0 (nil) or 1; a slice is a sequence; a map is a function; a      *)
(* string built by fmt.Sprintf is the tuple of its arguments; an error is  *)
(* a string, "" being the nil error.                                       *)
(***************************************************************************)
EXTENDS Integers, Sequences, FiniteSets, TLC

VARIABLES
    worker,     \* w.worker, w.cluster and the seed objects the delegate reads
    w,          \* the result fields of the workerDelegate
    last,       \* the last call on the delegate and what it returned
    prev,       \* the worker and the results of the previous generation run
    seed,       \* what DeployMachineClasses did on the seed / provider cluster
    req,        \* the admission request handed to the shoot validator
    resp        \* what the shoot validator did with it

vars == <<worker, w, last, prev, seed, req, resp>>

-----------------------------------------------------------------------------
(* Bounds of the model *)

MaxPools == 2
MaxZones == 2
MaxCount == 6

-----------------------------------------------------------------------------
(* Go values *)

Nil == <<>>
Ptr(x) == <<x>>
NoErr == ""

Range(s) == {s[i] : i \in 1..Len(s)}

RECURSIVE SumSeq(_)
SumSeq(s) == IF s = <<>> THEN 0 ELSE Head(s) + SumSeq(Tail(s))

EmptyMap == [k \in {} |-> Nil]

\* m[k] = v of a Go map
MapSet(m, k, v) == [x \in (DOMAIN m) \cup {k} |-> IF x = k THEN v ELSE m[x]]

\* a sequence of at most n elements of S
SeqUpTo(S, n) == UNION {[1..k -> S] : k \in 0..n}

-----------------------------------------------------------------------------
(* The cluster: cloud profile catalog and cloud profile config *)

MachineTypes ==
    << [name |-> "standard-1", cpu |-> "1", memory |-> "4Gi", storage |-> Nil],
       [name |-> "local-1", cpu |-> "2", memory |-> "8Gi",
        storage |-> Ptr([class |-> "local", storageSize |-> Ptr("20Gi")])],
       [name |-> "local-0", cpu |-> "2", memory |-> "8Gi",
        storage |-> Ptr([class |-> "local", storageSize |-> Nil])],
       [name |-> "local-1", cpu |-> "8", memory |-> "32Gi", storage |-> Nil] >>

VolumeTypes ==
    << [name |-> "standard", class |-> "standard-class"],
       [name |-> "fast", class |-> "fast-class"] >>

CloudProfileConfig ==
    Ptr([machineImages |->
            << [name |-> "ubuntu", version |-> "18.04", sourceURL |-> "http://images/ubuntu-18.04"],
               [name |-> "ubuntu", version |-> "20.04", sourceURL |-> "http://images/ubuntu-20.04"] >>,
         machineTypes |->
            << [name |-> "local-1", limits |-> Ptr([cpu |-> "4", memory |-> "16Gi"])],
               [name |-> "local-0", limits |-> Nil] >>])

Cluster ==
    [shoot |-> [kubernetesVersion |-> "1.18.2"],
     cloudProfile |-> [machineTypes |-> MachineTypes, volumeTypes |-> VolumeTypes]]

-----------------------------------------------------------------------------
(* Opaque provider payloads and the config extractors *)

\* runtime.Decoder.Decode on a payload: a strict decoder rejects unknown
\* fields, a lenient one drops them; both reject a malformed payload.
Decode(strict, payload) ==
    IF ~payload.wellFormed THEN [value |-> Nil, err |-> "decode: malformed"]
    ELSE IF strict /\ payload.unknownField THEN [value |-> Nil, err |-> "decode: unknown field"]
    ELSE [value |-> Ptr(payload.value), err |-> NoErr]

WorkerConfigZero ==
    [devices |-> Nil, cpu |-> Nil, memory |-> Nil, dnsPolicy |-> "", dnsConfig |-> Nil,
     overcommitGuestOverhead |-> FALSE, disablePreAllocatedDataVolumes |-> FALSE]

InfrastructureStatusZero == [networks |-> <<>>]

\* the package decoder of helper is strict
HelperDecoderStrict == TRUE

GetWorkerConfig(p) ==
    IF p.providerConfig # Nil /\ p.providerConfig[1].raw # Nil
    THEN LET d == Decode(HelperDecoderStrict, p.providerConfig[1].raw[1])
         IN  IF d.err # NoErr
             THEN [config |-> Nil, err |-> "could not decode providerConfig of worker pool"]
             ELSE [config |-> d.value, err |-> NoErr]
    ELSE [config |-> Ptr(WorkerConfigZero), err |-> NoErr]

GetInfrastructureStatus(wk) ==
    IF wk.infrastructureProviderStatus # Nil /\ wk.infrastructureProviderStatus[1].raw # Nil
    THEN LET d == Decode(HelperDecoderStrict, wk.infrastructureProviderStatus[1].raw[1])
         IN  IF d.err # NoErr
             THEN [status |-> Nil, err |-> "could not decode infrastructureProviderStatus of worker"]
             ELSE [status |-> d.value, err |-> NoErr]
    ELSE [status |-> Ptr(InfrastructureStatusZero), err |-> NoErr]

\* Scheme().Convert of the internal InfrastructureStatus to v1alpha1
ConvertInfrastructureStatus(wk, status) ==
    IF wk.schemeConverts
    THEN [status |-> Ptr([apiVersion |-> "kubevirt.provider.extensions.gardener.cloud/v1alpha1",
                          kind |-> "InfrastructureStatus",
                          networks |-> status.networks]),
          err |-> NoErr]
    ELSE [status |-> Nil, err |-> "converting InfrastructureStatus failed"]

KubeconfigSecretKey == "kubeconfig"

GetKubeConfig(secret) ==
    IF secret = Nil
    THEN [kubeconfig |-> Nil, err |-> "could not get secret by reference"]
    ELSE IF KubeconfigSecretKey \notin DOMAIN secret[1].data
    THEN [kubeconfig |-> Nil, err |-> "missing kubeconfig field in secret"]
    ELSE [kubeconfig |-> Ptr(secret[1].data[KubeconfigSecretKey]), err |-> NoErr]

GetClient(kubeconfig) ==
    IF ~kubeconfig.parses
    THEN [namespace |-> "", err |-> "could not create client config from kubeconfig"]
    ELSE [namespace |-> kubeconfig.namespace, err |-> NoErr]

-----------------------------------------------------------------------------
(* Catalog lookups *)

\* the first element of a list with the given name, or nil
FirstNamed(list, name) ==
    LET idx == {i \in 1..Len(list) : list[i].name = name}
    IN  IF idx = {} THEN Nil ELSE Ptr(list[CHOOSE i \in idx : \A j \in idx : i <= j])

getMachineType(cluster, name) ==
    LET mt == FirstNamed(cluster.cloudProfile.machineTypes, name)
    IN  IF mt = Nil THEN [machineType |-> Nil, err |-> "machine type not found in cloud profile"]
        ELSE [machineType |-> mt, err |-> NoErr]

getVolumeType(cluster, name) ==
    LET vt == FirstNamed(cluster.cloudProfile.volumeTypes, name)
    IN  IF vt = Nil THEN [volumeType |-> Nil, err |-> "volume type not found in cloud profile"]
        ELSE [volumeType |-> vt, err |-> NoErr]

getMachineTypeExtension(cloudProfileConfig, name) ==
    IF cloudProfileConfig # Nil THEN FirstNamed(cloudProfileConfig[1].machineTypes, name) ELSE Nil

\* the source URL of the image with this name and version in the cloud profile config
getMachineImageURL(cloudProfileConfig, name, version) ==
    LET images == IF cloudProfileConfig = Nil THEN <<>> ELSE cloudProfileConfig[1].machineImages
        idx == {i \in 1..Len(images) : images[i].name = name /\ images[i].version = version}
    IN  IF idx = {} THEN [url |-> "", err |-> "machine image not found"]
        ELSE [url |-> images[CHOOSE i \in idx : \A j \in idx : i <= j].sourceURL, err |-> NoErr]

\* resource.ParseQuantity: a quantity is a number followed by a suffix
Quantities == {"8Gi", "10Gi", "20Gi"}

ParseQuantity(str) ==
    IF str \in Quantities THEN [quantity |-> str, err |-> NoErr]
    ELSE [quantity |-> "", err |-> "quantities must match the regular expression"]

getStorageClassNameAndSize(cluster, volumeTypeName, volumeSize) ==
    LET vt == getVolumeType(cluster, volumeTypeName)
    IN  IF vt.err # NoErr THEN [class |-> "", size |-> "", err |-> vt.err]
        ELSE LET q == ParseQuantity(volumeSize)
             IN  IF q.err # NoErr
                 THEN [class |-> "", size |-> "", err |-> "could not parse volume size as quantity"]
                 ELSE [class |-> vt.volumeType[1].class, size |-> q.quantity, err |-> NoErr]

-----------------------------------------------------------------------------
(* Data volume specs *)

PVCSpec(storageClassName, storageSize) ==
    [accessModes |-> <<"ReadWriteOnce">>,
     requests |-> [storage |-> storageSize],
     storageClassName |-> Ptr(storageClassName)]

buildDataVolumeSpecWithPVCSource(storageClassName, storageSize, namespace, name) ==
    [pvc |-> Ptr(PVCSpec(storageClassName, storageSize)),
     source |-> [pvc |-> Ptr([namespace |-> namespace, name |-> name]), http |-> Nil, blank |-> Nil]]

buildDataVolumeSpecWithHTTPSource(storageClassName, storageSize, url) ==
    [pvc |-> Ptr(PVCSpec(storageClassName, storageSize)),
     source |-> [pvc |-> Nil, http |-> Ptr([url |-> url]), blank |-> Nil]]

BlankSourceMissing(storageClassName, storageSize) ==
    [pvc |-> Ptr(PVCSpec(storageClassName, storageSize)),
     source |-> [pvc |-> Nil, http |-> Nil, blank |-> Nil]]

buildDataVolumeSpecWithBlankSource(storageClassName, storageSize) ==
    [pvc |-> Ptr(PVCSpec(storageClassName, storageSize)),
     source |-> [pvc |-> Nil, http |-> Nil, blank |-> Ptr("DataVolumeBlankImage")]]

-----------------------------------------------------------------------------
(* Zone distribution, pool hash and image list of the worker library *)

FromInt(n) == [type |-> "Int", intVal |-> n]
FromPercent(p) == [type |-> "String", percent |-> p]

DistributeOverZones(zoneIndex, size, zoneSize) ==
    (size \div zoneSize) + (IF zoneIndex < size % zoneSize THEN 1 ELSE 0)

\* a percentage resolved against its reference
ResolvePercent(percent, total) == (percent * total) \div 100

DistributePositiveIntOrPercent(zoneIndex, intOrPercent, zoneSize, total) ==
    IF intOrPercent.type = "Int"
    THEN FromInt(DistributeOverZones(zoneIndex, intOrPercent.intVal, zoneSize))
    ELSE FromInt(DistributeOverZones(zoneIndex, ResolvePercent(intOrPercent.percent, total), zoneSize))

\* a content hash of the pool spec, the cluster context and the additional data
WorkerPoolHash(pool, cluster, additionalData) ==
    [hash |-> <<"sha256", pool, cluster.shoot, additionalData>>, err |-> NoErr]

appendMachineImage(machineImages, machineImage) ==
    IF \E i \in 1..Len(machineImages) :
          /\ machineImages[i].name = machineImage.name
          /\ machineImages[i].version = machineImage.version
    THEN machineImages
    ELSE Append(machineImages, machineImage)

-----------------------------------------------------------------------------
(* generateMachineConfig *)

accumulatorsOfDelegate(wd) ==
    [err |-> NoErr,
     machineDeployments |-> wd.machineDeployments,
     machineClasses |-> wd.machineClasses,
     machineImages |-> wd.machineImages,
     machineClassVolumes |-> wd.machineClassVolumes]

\* the local result variables of a run
newAccumulators(wd) ==
    [err |-> NoErr,
     machineDeployments |-> <<>>,
     machineClasses |-> <<>>,
     machineImages |-> <<>>,
     machineClassVolumes |-> EmptyMap]

Failed(acc, err) == [acc EXCEPT !.err = err]

networksDataWithoutSHA(networks) ==
    [i \in 1..(2 * Len(networks)) |->
        LET network == networks[((i - 1) \div 2) + 1]
        IN  IF (i - 1) % 2 = 0 THEN network.name
            ELSE (IF network.default THEN "true" ELSE "false")]

\* name, default flag and SHA of every network, flattened
networksData(networks) ==
    [i \in 1..(3 * Len(networks)) |->
        LET network == networks[((i - 1) \div 3) + 1]
        IN  CASE (i - 1) % 3 = 0 -> network.name
              [] (i - 1) % 3 = 1 -> (IF network.default THEN "true" ELSE "false")
              [] OTHER -> network.sha]

poolHashOfAllPools(wk, pool, data) == WorkerPoolHash(wk.pools, wk.cluster, data)

\* the hash of a pool
poolHash(wk, pool, data) == WorkerPoolHash(pool, wk.cluster, data)

poolMachineImage(pool, imageSourceURL) ==
    [name |-> pool.machineImage.name,
     version |-> pool.machineImage.version,
     sourceURL |-> imageSourceURL]

trackMachineImageAlways(machineImages, pool, imageSourceURL) ==
    Append(machineImages, poolMachineImage(pool, imageSourceURL))

\* the image of a pool is added to the images of the run
trackMachineImage(machineImages, pool, imageSourceURL) ==
    appendMachineImage(machineImages, poolMachineImage(pool, imageSourceURL))

resourceRequirements(wk, machineType, workerConfig) ==
    LET mt == getMachineTypeExtension(wk.cloudProfileConfig, machineType.name)
    IN  [requests |-> [cpu |-> machineType.cpu, memory |-> machineType.memory],
         overcommitGuestOverhead |-> workerConfig.overcommitGuestOverhead,
         limits |-> IF mt # Nil /\ mt[1].limits # Nil
                    THEN Ptr([cpu |-> mt[1].limits[1].cpu, memory |-> mt[1].limits[1].memory])
                    ELSE Nil]

\* the panic of a run that dereferences a nil pointer: the run ends there
NilDereference == "panic: invalid memory address or nil pointer dereference"

\* getStorageClassNameAndSize(*volumeType, volumeSize)
storageClassNameAndSizeOf(wk, volumeType, volumeSize) ==
    IF volumeType = Nil THEN [class |-> "", size |-> "", err |-> NilDereference]
    ELSE getStorageClassNameAndSize(wk.cluster, volumeType[1], volumeSize)

rootVolumeOfMachineTypeFirst(wk, pool, machineType) ==
    IF machineType.storage # Nil /\ machineType.storage[1].storageSize # Nil
    THEN [class |-> machineType.storage[1].class,
          size |-> machineType.storage[1].storageSize[1],
          err |-> NoErr]
    ELSE IF pool.volume # Nil
    THEN storageClassNameAndSizeOf(wk, pool.volume[1].type, pool.volume[1].size)
    ELSE [class |-> "", size |-> "",
          err |-> "missing volume in worker pool and storage in machine type"]

\* root volume storage class name and size
rootVolumeClassNameAndSize(wk, pool, machineType) ==
    IF pool.volume # Nil
    THEN storageClassNameAndSizeOf(wk, pool.volume[1].type, pool.volume[1].size)
    ELSE IF machineType.storage # Nil /\ machineType.storage[1].storageSize # Nil
    THEN [class |-> machineType.storage[1].class,
          size |-> machineType.storage[1].storageSize[1],
          err |-> NoErr]
    ELSE [class |-> "", size |-> "",
          err |-> "missing volume in worker pool and storage in machine type"]

RECURSIVE buildAdditionalVolumes(_, _, _, _)
buildAdditionalVolumes(wk, pool, additionalVolumes, i) ==
    IF i > Len(pool.dataVolumes) THEN [additionalVolumes |-> additionalVolumes, err |-> NoErr]
    ELSE LET volume == pool.dataVolumes[i]
             sc == storageClassNameAndSizeOf(wk, volume.type, volume.size)
         IN  IF sc.err # NoErr THEN [additionalVolumes |-> additionalVolumes, err |-> sc.err]
             ELSE buildAdditionalVolumes(wk, pool,
                      Append(additionalVolumes,
                             [name |-> volume.name,
                              dataVolume |-> buildDataVolumeSpecWithBlankSource(sc.class, sc.size)]),
                      i + 1)

deploymentNameZeroBased(wk, pool, zoneIndex) == <<wk.namespace, pool.name, "z", zoneIndex>>

\* a deployment name without the ordinal of the zone
deploymentNameOfPool(wk, pool, zoneIndex) == <<wk.namespace, pool.name, "z", 1>>

deploymentName(wk, pool, zoneIndex) == <<wk.namespace, pool.name, "z", zoneIndex + 1>>

className(wk, pool, zoneIndex, workerPoolHash) ==
    <<deploymentName(wk, pool, zoneIndex), workerPoolHash>>

\* root volume of a machine class and its machine class volume, if any
rootVolumeInverted(c, name) ==
    IF c.workerConfig.disablePreAllocatedDataVolumes
    THEN [rootVolume |-> buildDataVolumeSpecWithPVCSource(c.rootVolumeClassName, c.rootVolumeSize, c.namespace, name),
          classVolume |-> Ptr(buildDataVolumeSpecWithHTTPSource(c.rootVolumeClassName, c.rootVolumeSize, c.imageSourceURL))]
    ELSE [rootVolume |-> buildDataVolumeSpecWithHTTPSource(c.rootVolumeClassName, c.rootVolumeSize, c.imageSourceURL),
          classVolume |-> Nil]

rootVolumeAndClassVolume(c, name) ==
    IF ~c.workerConfig.disablePreAllocatedDataVolumes
    THEN [rootVolume |-> buildDataVolumeSpecWithPVCSource(c.rootVolumeClassName, c.rootVolumeSize, c.namespace, name),
          classVolume |-> Ptr(buildDataVolumeSpecWithHTTPSource(c.rootVolumeClassName, c.rootVolumeSize, c.imageSourceURL))]
    ELSE [rootVolume |-> buildDataVolumeSpecWithHTTPSource(c.rootVolumeClassName, c.rootVolumeSize, c.imageSourceURL),
          classVolume |-> Nil]

machineClass(wk, c, zoneIndex, name, rootVolume) ==
    [name |-> name,
     region |-> wk.region,
     zone |-> c.pool.zones[zoneIndex + 1],
     resources |-> c.resourceRequirements,
     devices |-> c.workerConfig.devices,
     rootVolume |-> rootVolume,
     additionalVolumes |-> c.additionalVolumes,
     sshKeys |-> <<wk.sshPublicKey>>,
     networks |-> c.networks,
     cpu |-> c.workerConfig.cpu,
     memory |-> c.workerConfig.memory,
     dnsPolicy |-> c.workerConfig.dnsPolicy,
     dnsConfig |-> c.workerConfig.dnsConfig,
     tags |-> [cluster |-> wk.namespace, role |-> "node", machineclass |-> name],
     secret |-> [cloudConfig |-> c.pool.userData, kubeconfig |-> c.kubeconfig]]

machineDeploymentOneBased(wk, c, zoneIndex, name) ==
    [name |-> deploymentName(wk, c.pool, zoneIndex),
     className |-> name,
     secretName |-> name,
     minimum |-> DistributeOverZones(zoneIndex + 1, c.pool.minimum, c.zoneLen),
     maximum |-> DistributeOverZones(zoneIndex + 1, c.pool.maximum, c.zoneLen),
     maxSurge |-> DistributePositiveIntOrPercent(zoneIndex + 1, c.pool.maxSurge, c.zoneLen, c.pool.maximum),
     maxUnavailable |-> DistributePositiveIntOrPercent(zoneIndex + 1, c.pool.maxUnavailable, c.zoneLen, c.pool.minimum),
     labels |-> c.pool.labels,
     annotations |-> c.pool.annotations,
     taints |-> c.pool.taints]

machineDeployment(wk, c, zoneIndex, name) ==
    [name |-> deploymentName(wk, c.pool, zoneIndex),
     className |-> name,
     secretName |-> name,
     minimum |-> DistributeOverZones(zoneIndex, c.pool.minimum, c.zoneLen),
     maximum |-> DistributeOverZones(zoneIndex, c.pool.maximum, c.zoneLen),
     maxSurge |-> DistributePositiveIntOrPercent(zoneIndex, c.pool.maxSurge, c.zoneLen, c.pool.maximum),
     maxUnavailable |-> DistributePositiveIntOrPercent(zoneIndex, c.pool.maxUnavailable, c.zoneLen, c.pool.minimum),
     labels |-> c.pool.labels,
     annotations |-> c.pool.annotations,
     taints |-> c.pool.taints]

\* the loop over the zones of a pool with one machine class for the pool
RECURSIVE zonesLoopOneClass(_, _, _, _)
zonesLoopOneClass(wk, c, acc, zoneIndex) ==
    IF zoneIndex >= Len(c.pool.zones) THEN acc
    ELSE LET name == className(wk, c.pool, 0, c.workerPoolHash)
             rv == rootVolumeAndClassVolume(c, name)
         IN  zonesLoopOneClass(wk, c,
                 [acc EXCEPT
                     !.machineClassVolumes =
                         IF rv.classVolume # Nil THEN MapSet(@, name, rv.classVolume[1]) ELSE @,
                     !.machineClasses =
                         IF zoneIndex = 0 THEN Append(@, machineClass(wk, c, zoneIndex, name, rv.rootVolume))
                         ELSE @,
                     !.machineDeployments = Append(@, machineDeployment(wk, c, zoneIndex, name))],
                 zoneIndex + 1)

\* the loop over the zones of a pool, from zoneIndex on
RECURSIVE zonesLoop(_, _, _, _)
zonesLoop(wk, c, acc, zoneIndex) ==
    IF zoneIndex >= Len(c.pool.zones) THEN acc
    ELSE LET name == className(wk, c.pool, zoneIndex, c.workerPoolHash)
             rv == rootVolumeAndClassVolume(c, name)
         IN  zonesLoop(wk, c,
                 [acc EXCEPT
                     !.machineClassVolumes =
                         IF rv.classVolume # Nil THEN MapSet(@, name, rv.classVolume[1]) ELSE @,
                     !.machineClasses = Append(@, machineClass(wk, c, zoneIndex, name, rv.rootVolume)),
                     !.machineDeployments = Append(@, machineDeployment(wk, c, zoneIndex, name))],
                 zoneIndex + 1)

\* the body of the loop over the pools
poolBody(wk, g, acc, pool) ==
    LET wc == GetWorkerConfig(pool) IN
    IF wc.err # NoErr THEN Failed(acc, "could not get WorkerConfig from worker pool") ELSE
    LET mt == getMachineType(wk.cluster, pool.machineType) IN
    IF mt.err # NoErr THEN Failed(acc, mt.err) ELSE
    LET h == poolHash(wk, pool, g.networksData) IN
    IF h.err # NoErr THEN Failed(acc, "could not compute hash for worker pool") ELSE
    LET img == getMachineImageURL(wk.cloudProfileConfig, pool.machineImage.name, pool.machineImage.version) IN
    IF img.err # NoErr THEN Failed(acc, img.err) ELSE
    LET acc1 == [acc EXCEPT !.machineImages = trackMachineImage(@, pool, img.url)]
        rr == resourceRequirements(wk, mt.machineType[1], wc.config[1])
        root == rootVolumeClassNameAndSize(wk, pool, mt.machineType[1])
    IN
    IF root.err # NoErr THEN Failed(acc1, root.err) ELSE
    LET av == buildAdditionalVolumes(wk, pool, <<>>, 1) IN
    IF av.err # NoErr THEN Failed(acc1, av.err) ELSE
    zonesLoop(wk,
              [pool |-> pool,
               zoneLen |-> Len(pool.zones),
               namespace |-> g.namespace,
               kubeconfig |-> g.kubeconfig,
               networks |-> g.networks,
               workerConfig |-> wc.config[1],
               workerPoolHash |-> h.hash,
               imageSourceURL |-> img.url,
               resourceRequirements |-> rr,
               rootVolumeClassName |-> root.class,
               rootVolumeSize |-> root.size,
               additionalVolumes |-> av.additionalVolumes],
              acc1, 0)

RECURSIVE poolsLoopBackwards(_, _, _, _)
poolsLoopBackwards(wk, g, acc, i) ==
    IF i > Len(wk.pools) \/ acc.err # NoErr THEN acc
    ELSE poolsLoopBackwards(wk, g, poolBody(wk, g, acc, wk.pools[Len(wk.pools) + 1 - i]), i + 1)

\* the loop over the pools, from pool i on: a pool that fails ends the run
RECURSIVE poolsLoop(_, _, _, _)
poolsLoop(wk, g, acc, i) ==
    IF i > Len(wk.pools) \/ acc.err # NoErr THEN acc
    ELSE poolsLoop(wk, g, poolBody(wk, g, acc, wk.pools[i]), i + 1)

\* one run of generateMachineConfig up to its assignments: the local result
\* variables and the error, as they are when the run returns
generateRun(wk, acc) ==
    LET kc == GetKubeConfig(wk.secret) IN
    IF kc.err # NoErr THEN Failed(acc, "could not get kubeconfig from worker secret reference") ELSE
    LET cl == GetClient(kc.kubeconfig[1]) IN
    IF cl.err # NoErr THEN Failed(acc, "could not create client from kubeconfig") ELSE
    LET is == GetInfrastructureStatus(wk) IN
    IF is.err # NoErr THEN Failed(acc, "could not get InfrastructureStatus from worker") ELSE
    LET v1 == ConvertInfrastructureStatus(wk, is.status[1]) IN
    IF v1.err # NoErr THEN Failed(acc, "could not convert InfrastructureStatus to v1alpha1") ELSE
    IF wk.sshPublicKey = "" THEN Failed(acc, "missing sshPublicKey in worker") ELSE
    poolsLoop(wk,
              [kubeconfig |-> kc.kubeconfig[1],
               namespace |-> cl.namespace,
               networks |-> v1.status[1].networks,
               networksData |-> networksData(is.status[1].networks)],
              acc, 1)

-----------------------------------------------------------------------------
(* The worker delegate *)

ResultFields == {"machineDeployments", "machineClasses", "machineImages", "machineClassVolumes"}

\* a delegate as NewWorkerDelegate returns it: no result field is set
freshDelegate ==
    [machineDeployments |-> <<>>,
     machineClasses |-> <<>>,
     machineImages |-> <<>>,
     machineClassVolumes |-> EmptyMap,
     isNil |-> ResultFields]

\* the four assignments that end a run; a slice that was never appended to is nil
assignAlways(wd, r) ==
    [machineDeployments |-> r.machineDeployments,
     machineClasses |-> r.machineClasses,
     machineImages |-> r.machineImages,
     machineClassVolumes |-> r.machineClassVolumes,
     isNil |-> {f \in {"machineClasses", "machineImages"} : r[f] = <<>>}]

assignResults(wd, r) ==
    IF r.err # NoErr THEN wd
    ELSE [machineDeployments |-> r.machineDeployments,
          machineClasses |-> r.machineClasses,
          machineImages |-> r.machineImages,
          machineClassVolumes |-> r.machineClassVolumes,
          isNil |-> {f \in {"machineClasses", "machineImages"} : r[f] = <<>>}]

\* the results of a run, as the delegate holds them
Results(wd) ==
    [machineDeployments |-> wd.machineDeployments,
     machineClasses |-> wd.machineClasses,
     machineImages |-> wd.machineImages,
     machineClassVolumes |-> wd.machineClassVolumes]

NoCall == [op |-> "none", err |-> NoErr, generated |-> FALSE, partial |-> 0, returned |-> Nil]

NoRuns == [last |-> Nil, before |-> Nil]

\* the successful runs so far: the worker and the results of the last one and
\* of the one before it
recordRun(p, wk, wd, r) ==
    IF r.err # NoErr THEN p
    ELSE [last |-> Ptr([worker |-> wk, out |-> Results(wd)]), before |-> p.last]

generateMachineConfig ==
    \E r \in {generateRun(worker, newAccumulators(w))} :
    LET wd == assignResults(w, r)
    IN  /\ w' = wd
        /\ last' = [op |-> "generateMachineConfig", err |-> r.err, generated |-> TRUE,
                    partial |-> Len(r.machineClasses), returned |-> Nil]
        /\ prev' = recordRun(prev, worker, wd, r)
        /\ UNCHANGED <<worker, seed, req, resp>>

\* a reconciliation of the same worker starts with a new delegate
Reconcile ==
    /\ w # freshDelegate
    /\ w' = freshDelegate
    /\ last' = NoCall
    /\ UNCHANGED <<worker, prev, seed, req, resp>>

-----------------------------------------------------------------------------
(* Workers the delegate is created for *)

\* the names of the pools: some of them end like the name of a deployment
PoolNames == <<"a", "a-z1", "a-z1-z1", "d">>
ZoneNames == <<"zone-1", "zone-2", "zone-3", "zone-4">>

Payload(value) == Ptr([raw |-> Ptr([wellFormed |-> TRUE, unknownField |-> FALSE, value |-> value])])

BasePool(i, nz) ==
    [name |-> PoolNames[i],
     machineType |-> "standard-1",
     machineImage |-> [name |-> "ubuntu", version |-> "18.04"],
     volume |-> Ptr([type |-> Ptr("standard"), size |-> "8Gi"]),
     dataVolumes |-> <<>>,
     zones |-> SubSeq(ZoneNames, 1, nz),
     minimum |-> 1,
     maximum |-> 2,
     maxSurge |-> FromInt(1),
     maxUnavailable |-> FromInt(0),
     labels |-> [pool |-> PoolNames[i]],
     annotations |-> Nil,
     taints |-> <<>>,
     userData |-> "#cloud-config",
     providerConfig |-> Nil]

GoodTraits == {"plain", "noprealloc", "image2", "storage", "both", "datavol", "rawnil", "samename"}

PoolFaults == {"badconfig", "unknownfield", "unknownMT", "noimage", "unknownVT", "badsize",
               "novolume", "nosizestorage", "dvUnknownVT", "dvBadsize", "notype", "dvNotype"}

MkPool(i, trait, nz) ==
    LET b == BasePool(i, nz)
        dv(type, size) == <<[name |-> "data-1", type |-> type, size |-> size]>>
    IN  CASE trait = "plain" -> b
          [] trait = "noprealloc" ->
                [b EXCEPT !.providerConfig =
                    Payload([WorkerConfigZero EXCEPT !.disablePreAllocatedDataVolumes = TRUE])]
          [] trait = "image2" -> [b EXCEPT !.machineImage.version = "20.04"]
          [] trait = "storage" -> [b EXCEPT !.machineType = "local-1", !.volume = Nil]
          [] trait = "both" -> [b EXCEPT !.machineType = "local-1"]
          [] trait = "datavol" -> [b EXCEPT !.dataVolumes = dv(Ptr("fast"), "10Gi")]
          [] trait = "rawnil" -> [b EXCEPT !.providerConfig = Ptr([raw |-> Nil])]
          [] trait = "samename" -> [b EXCEPT !.name = PoolNames[1]]
          [] trait = "badconfig" ->
                [b EXCEPT !.providerConfig =
                    Ptr([raw |-> Ptr([wellFormed |-> FALSE, unknownField |-> FALSE, value |-> WorkerConfigZero])])]
          [] trait = "unknownfield" ->
                [b EXCEPT !.providerConfig =
                    Ptr([raw |-> Ptr([wellFormed |-> TRUE, unknownField |-> TRUE, value |-> WorkerConfigZero])])]
          [] trait = "unknownMT" -> [b EXCEPT !.machineType = "huge-9"]
          [] trait = "noimage" -> [b EXCEPT !.machineImage.version = "16.04"]
          [] trait = "unknownVT" -> [b EXCEPT !.volume = Ptr([type |-> Ptr("premium"), size |-> "8Gi"])]
          [] trait = "badsize" -> [b EXCEPT !.volume = Ptr([type |-> Ptr("standard"), size |-> "eight"])]
          [] trait = "notype" -> [b EXCEPT !.machineType = "local-1", !.volume = Ptr([type |-> Nil, size |-> "8Gi"])]
          [] trait = "dvNotype" -> [b EXCEPT !.dataVolumes = dv(Nil, "10Gi")]
          [] trait = "novolume" -> [b EXCEPT !.volume = Nil]
          [] trait = "nosizestorage" -> [b EXCEPT !.machineType = "local-0", !.volume = Nil]
          [] trait = "dvUnknownVT" -> [b EXCEPT !.dataVolumes = dv(Ptr("premium"), "10Gi")]
          [] trait = "dvBadsize" -> [b EXCEPT !.dataVolumes = dv(Ptr("fast"), "ten")]

Networks == << [name |-> "default/net-1", default |-> TRUE, sha |-> "sha-1"],
               [name |-> "default/net-2", default |-> FALSE, sha |-> "sha-2"] >>

GoodSecret == Ptr([data |-> [kubeconfig |-> [parses |-> TRUE, namespace |-> "provider-ns"]]])

BaseWorker(pools) ==
    [namespace |-> "shoot--dev--kv",
     region |-> "local",
     sshPublicKey |-> "ssh-rsa AAAA",
     secret |-> GoodSecret,
     infrastructureProviderStatus |-> Payload([networks |-> Networks]),
     schemeConverts |-> TRUE,
     pools |-> pools,
     cluster |-> Cluster,
     cloudProfileConfig |-> CloudProfileConfig]

EnvVariants == {"nostatus", "nullstatus", "nosecret", "nokey", "badkubeconfig", "badstatus",
                "noconvert", "nosshkey"}

MkWorker(pools, variant) ==
    LET b == BaseWorker(pools)
    IN  CASE variant = "good" -> b
          [] variant = "nostatus" -> [b EXCEPT !.infrastructureProviderStatus = Nil]
          [] variant = "nullstatus" -> [b EXCEPT !.infrastructureProviderStatus = Ptr([raw |-> Nil])]
          [] variant = "nosecret" -> [b EXCEPT !.secret = Nil]
          [] variant = "nokey" -> [b EXCEPT !.secret = Ptr([data |-> [token |-> "abc"]])]
          [] variant = "badkubeconfig" ->
                [b EXCEPT !.secret = Ptr([data |-> [kubeconfig |-> [parses |-> FALSE, namespace |-> ""]]])]
          [] variant = "badstatus" ->
                [b EXCEPT !.infrastructureProviderStatus =
                    Ptr([raw |-> Ptr([wellFormed |-> FALSE, unknownField |-> FALSE,
                                      value |-> InfrastructureStatusZero])])]
          [] variant = "noconvert" -> [b EXCEPT !.schemeConverts = FALSE]
          [] variant = "nosshkey" -> [b EXCEPT !.sshPublicKey = ""]

\* n pools without a fault: pool i has the trait and the number of zones of choice i
GoodPools(n, choice) == [i \in 1..n |-> MkPool(i, choice[i][1], choice[i][2])]

\* a pool has no zone, one zone or as many as there may be
ZoneCounts == {0, 1, MaxZones}

PoolChoices(n) == [1..n -> GoodTraits \X ZoneCounts]

PlainPools(n) == [i \in 1..n |-> MkPool(i, "plain", 1)]

\* any good pools, then a pool with a fault, then plain pools
FaultyPools(k, choice, fault, rest) ==
    GoodPools(k - 1, choice) \o <<MkPool(k, fault, 1)>> \o [i \in 1..rest |-> MkPool(k + i, "plain", 1)]

InitWorker ==
    \/ \E n \in 0..MaxPools : \E choice \in PoolChoices(n) :
          worker = MkWorker(GoodPools(n, choice), "good")
    \/ \E k \in 1..MaxPools : \E choice \in PoolChoices(k - 1) :
       \E fault \in PoolFaults : \E rest \in 0..(MaxPools - k) :
          worker = MkWorker(FaultyPools(k, choice, fault, rest), "good")
    \/ \E n \in 0..MaxPools : \E v \in EnvVariants :
          worker = MkWorker(PlainPools(n), v)

\* what a DeployMachineClasses call did: the step it returned at, the values
\* of the chart it applied, the data volumes it asked for in that order, those
\* it created or updated and the one that failed
NoSeed ==
    [at |-> "none", applied |-> FALSE, chart |-> Nil, attempts |-> <<>>, dataVolumes |-> EmptyMap,
     failed |-> Nil]
NoRequest == [env |-> Nil, old |-> Nil, new |-> Nil, extractor |-> "none", section |-> Nil]
NoResponse == [calls |-> <<>>, errors |-> <<>>, err |-> NoErr, context |-> Nil]

Init ==
    /\ InitWorker
    /\ w = freshDelegate
    /\ last = NoCall
    /\ prev = NoRuns
    /\ seed = NoSeed
    /\ req = NoRequest
    /\ resp = NoResponse

Next == generateMachineConfig \/ Reconcile

Spec == Init /\ [][Next]_vars

-----------------------------------------------------------------------------
(* Zone distribution: one pool whose scaling bounds vary *)

PercentValues == {0, 25, 50, 100}

IntOrPercentValues == {FromInt(n) : n \in 0..MaxCount} \cup {FromPercent(p) : p \in PercentValues}

InitZones ==
    /\ \E nz \in 1..MaxZones : \E mn \in 0..MaxCount : \E mx \in 0..MaxCount :
       \E surge \in IntOrPercentValues : \E unavailable \in IntOrPercentValues :
          worker = MkWorker(<<[BasePool(1, nz) EXCEPT !.minimum = mn, !.maximum = mx,
                                                      !.maxSurge = surge,
                                                      !.maxUnavailable = unavailable]>>, "good")
    /\ w = freshDelegate
    /\ last = NoCall
    /\ prev = NoRuns
    /\ seed = NoSeed
    /\ req = NoRequest
    /\ resp = NoResponse

SpecZones == InitZones /\ [][Next]_vars

-----------------------------------------------------------------------------
(* Rollover: the worker changes in one hashed input between two runs *)

Toggle(v, a, b) == IF v = a THEN b ELSE a

PoolFields == {"name", "zones", "machineType", "imageVersion", "volumeSize", "dataVolumes",
               "minimum", "maximum", "maxSurge", "labels", "userData", "providerConfig"}

NetworkFields == {"name", "default", "sha"}

EditPool(pool, f) ==
    CASE f = "name" -> [pool EXCEPT !.name = Toggle(@, "x", "y")]
      [] f = "zones" -> [pool EXCEPT !.zones = IF Len(@) > 1 THEN SubSeq(@, 1, Len(@) - 1)
                                                ELSE SubSeq(ZoneNames, 1, Len(@) + 1)]
      [] f = "machineType" -> [pool EXCEPT !.machineType = Toggle(@, "standard-1", "local-1")]
      [] f = "imageVersion" -> [pool EXCEPT !.machineImage.version = Toggle(@, "18.04", "20.04")]
      [] f = "volumeSize" -> [pool EXCEPT !.volume = Ptr([type |-> Ptr("standard"), size |-> Toggle(@[1].size, "8Gi", "10Gi")])]
      [] f = "dataVolumes" -> [pool EXCEPT !.dataVolumes =
                                  Toggle(@, <<>>, <<[name |-> "data-1", type |-> Ptr("fast"), size |-> "10Gi"]>>)]
      [] f = "minimum" -> [pool EXCEPT !.minimum = Toggle(@, 1, 0)]
      [] f = "maximum" -> [pool EXCEPT !.maximum = Toggle(@, 2, 3)]
      [] f = "maxSurge" -> [pool EXCEPT !.maxSurge = Toggle(@, FromInt(1), FromPercent(50))]
      [] f = "labels" -> [pool EXCEPT !.labels = Toggle(@, [pool |-> "blue"], [pool |-> "green"])]
      [] f = "userData" -> [pool EXCEPT !.userData = Toggle(@, "#cloud-config", "#cloud-config v2")]
      [] f = "providerConfig" ->
            [pool EXCEPT !.providerConfig =
                Toggle(@, Nil, Payload([WorkerConfigZero EXCEPT !.disablePreAllocatedDataVolumes = TRUE]))]

EditNetwork(network, f) ==
    CASE f = "name" -> [network EXCEPT !.name = Toggle(@, "default/net-1", "default/net-9")]
      [] f = "default" -> [network EXCEPT !.default = ~@]
      [] f = "sha" -> [network EXCEPT !.sha = Toggle(@, "sha-1", "sha-9")]

NetworksOf(wk) == wk.infrastructureProviderStatus[1].raw[1].value.networks

\* the worker object changes in one field of pool q and is reconciled by a new delegate
UpdatePool ==
    /\ prev.last # Nil /\ prev.before = Nil /\ prev.last[1].worker = worker
    /\ \E q \in 1..Len(worker.pools) : \E f \in PoolFields :
          worker' = [worker EXCEPT !.pools[q] = EditPool(@, f)]
    /\ w' = freshDelegate
    /\ last' = NoCall
    /\ UNCHANGED <<prev, seed, req, resp>>

\* the infrastructure status changes in one token of network j
UpdateNetwork ==
    /\ prev.last # Nil /\ prev.before = Nil /\ prev.last[1].worker = worker
    /\ \E j \in 1..Len(NetworksOf(worker)) : \E f \in NetworkFields :
          worker' = [worker EXCEPT
                        !.infrastructureProviderStatus[1].raw[1].value.networks[j] = EditNetwork(@, f)]
    /\ w' = freshDelegate
    /\ last' = NoCall
    /\ UNCHANGED <<prev, seed, req, resp>>

RolloverTraits == {"plain", "noprealloc"}

InitRollover ==
    /\ \E n \in 1..MaxPools : \E choice \in [1..n -> RolloverTraits \X (1..MaxZones)] :
          worker = MkWorker(GoodPools(n, choice), "good")
    /\ w = freshDelegate
    /\ last = NoCall
    /\ prev = NoRuns
    /\ seed = NoSeed
    /\ req = NoRequest
    /\ resp = NoResponse

NextRollover == generateMachineConfig \/ UpdatePool \/ UpdateNetwork

SpecRollover == InitRollover /\ [][NextRollover]_vars

-----------------------------------------------------------------------------
(* The entry points of the delegate and what they do on the clusters *)

\* the elements of a set, one after the other
RECURSIVE Ordered(_)
Ordered(S) ==
    IF S = {} THEN <<>>
    ELSE LET x == CHOOSE y \in S : TRUE IN <<x>> \o Ordered(S \ {x})

\* the range over the machine class volumes that goes on after a failure
RECURSIVE rangeMachineClassVolumesKeepGoing(_, _, _, _)
rangeMachineClassVolumesKeepGoing(volumes, order, failing, sd) ==
    IF order = <<>> THEN sd
    ELSE LET name == Head(order)
         IN  IF failing = Ptr(name)
             THEN rangeMachineClassVolumesKeepGoing(volumes, Tail(order), failing,
                      [sd EXCEPT !.at = "volume", !.attempts = Append(@, name), !.failed = failing])
             ELSE rangeMachineClassVolumesKeepGoing(volumes, Tail(order), failing,
                      [sd EXCEPT !.attempts = Append(@, name),
                                 !.dataVolumes = MapSet(@, name, volumes[name])])

\* the range over the machine class volumes, its entries yielded in the given
\* order: CreateOrUpdateDataVolume is called for each until it fails
RECURSIVE rangeMachineClassVolumes(_, _, _, _)
rangeMachineClassVolumes(volumes, order, failing, sd) ==
    IF order = <<>> THEN sd
    ELSE LET name == Head(order)
         IN  IF failing = Ptr(name)
             THEN [sd EXCEPT !.at = "volume", !.attempts = Append(@, name), !.failed = failing]
             ELSE rangeMachineClassVolumes(volumes, Tail(order), failing,
                      [sd EXCEPT !.attempts = Append(@, name),
                                 !.dataVolumes = MapSet(@, name, volumes[name])])

createOrUpdateMachineClassVolumes(wk, wd, order, failing, sd) ==
    IF GetKubeConfig(wk.secret).err # NoErr THEN [sd EXCEPT !.at = "kubeconfig"]
    ELSE rangeMachineClassVolumes(wd.machineClassVolumes, order, failing, sd)

\* the steps of DeployMachineClasses after the generation it may start with
applyAndCreateVolumes(wk, wd, genErr, applyFails, order, failing) ==
    IF genErr # NoErr THEN [NoSeed EXCEPT !.at = "generate"]
    ELSE IF applyFails THEN [NoSeed EXCEPT !.at = "apply"]
    ELSE createOrUpdateMachineClassVolumes(wk, wd, order, failing,
             [NoSeed EXCEPT !.at = "end", !.applied = TRUE,
                            !.chart = Ptr([machineClasses |-> wd.machineClasses])])

\* the error DeployMachineClasses returns
deployError(sd, genErr) ==
    CASE sd.at = "generate" -> genErr
      [] sd.at = "apply" -> "could not apply machine-class chart"
      [] sd.at = "kubeconfig" -> "could not get kubeconfig from worker secret reference"
      [] sd.at = "volume" -> "could not create or update data volume"
      [] sd.at = "end" -> NoErr

\* the run an entry point starts with if the field it reads is nil
generateIfNil(field) ==
    IF field \in w.isNil THEN Ptr(generateRun(worker, newAccumulators(w))) ELSE Nil

\* the orders the runtime may yield the entries of a map in, up to the order
\* among the entries before and among those after the one the call fails for
RangeOrders(m) ==
    {[order |-> Ordered(DOMAIN m), failing |-> Nil]} \cup
    {[order |-> Ordered(before) \o <<name>> \o Ordered((DOMAIN m \ before) \ {name}),
      failing |-> Ptr(name)] : name \in DOMAIN m, before \in SUBSET (DOMAIN m)}

DeployMachineClasses ==
    \E applyFails \in BOOLEAN : \E g \in {generateIfNil("machineClasses")} :
    LET wd == IF g = Nil THEN w ELSE assignResults(w, g[1])
        genErr == IF g = Nil THEN NoErr ELSE g[1].err
    IN  \E o \in RangeOrders(wd.machineClassVolumes) :
        \E sd \in {applyAndCreateVolumes(worker, wd, genErr, applyFails, o.order, o.failing)} :
           /\ w' = wd
           /\ seed' = sd
           /\ last' = [op |-> "DeployMachineClasses", err |-> deployError(sd, genErr), generated |-> g # Nil,
                       partial |-> IF g = Nil THEN 0 ELSE Len(g[1].machineClasses), returned |-> Nil]
           /\ prev' = IF g = Nil THEN prev ELSE recordRun(prev, worker, wd, g[1])
           /\ UNCHANGED <<worker, req, resp>>

GenerateMachineDeployments ==
    \E g \in {generateIfNil("machineDeployments")} :
    LET wd == IF g = Nil THEN w ELSE assignResults(w, g[1])
        genErr == IF g = Nil THEN NoErr ELSE g[1].err
    IN  /\ w' = wd
        /\ last' = [op |-> "GenerateMachineDeployments", err |-> genErr, generated |-> g # Nil,
                    partial |-> IF g = Nil THEN 0 ELSE Len(g[1].machineClasses),
                    returned |-> IF genErr # NoErr THEN Nil ELSE Ptr(wd.machineDeployments)]
        /\ prev' = IF g = Nil THEN prev ELSE recordRun(prev, worker, wd, g[1])
        /\ UNCHANGED <<worker, seed, req, resp>>

\* the secret the worker refers to is deleted between two calls
DeleteSecret ==
    /\ worker.secret # Nil
    /\ w # freshDelegate
    /\ worker' = [worker EXCEPT !.secret = Nil]
    /\ last' = NoCall
    /\ UNCHANGED <<w, prev, seed, req, resp>>

\* the first pool has no zone, one zone or two; the other pools have none if
\* the first one has none, and one otherwise
DelegateZoneCounts == {0, 1, 2}

DelegateTraits == {"plain", "noprealloc"}

InitDelegate ==
    /\ \/ \E n \in 0..MaxPools : \E trait \in DelegateTraits : \E nz \in DelegateZoneCounts :
             worker = MkWorker(GoodPools(n, [i \in 1..n |-> <<trait, IF i = 1 \/ nz = 0 THEN nz ELSE 1>>]),
                               "good")
       \/ worker = MkWorker(GoodPools(2, <<<<"noprealloc", 1>>, <<"plain", 2>>>>), "good")
       \/ \E v \in EnvVariants : worker = MkWorker(PlainPools(1), v)
       \/ \E fault \in PoolFaults : worker = MkWorker(FaultyPools(2, <<<<"plain", 1>>>>, fault, 0), "good")
    /\ w = freshDelegate
    /\ last = NoCall
    /\ prev = NoRuns
    /\ seed = NoSeed
    /\ req = NoRequest
    /\ resp = NoResponse

NextDelegate ==
    \/ generateMachineConfig
    \/ DeployMachineClasses
    \/ GenerateMachineDeployments
    \/ DeleteSecret

SpecDelegate == InitDelegate /\ [][NextDelegate]_vars

-----------------------------------------------------------------------------
(* The shoot validator: the validation functions it calls *)

FieldError(by, path, detail) == [by |-> by, field |-> path, detail |-> detail]

networkPath == <<"spec", "networking">>
infrastructureConfigPath == <<"spec", "provider", "infrastructureConfig">>
controlPlaneConfigPath == <<"spec", "provider", "controlPlaneConfig">>
workersPath == <<"spec", "provider", "workers">>
workerConfigPath(index) == <<"spec", "provider", "workers", index, "providerConfig">>

InfrastructureConfigZero == [networks |-> ""]
ControlPlaneConfigZero == [featureGates |-> ""]
CloudProfileConfigZero == [machineImages |-> <<>>, machineTypes |-> <<>>]
WorkerStatusZero == [machineImages |-> <<>>]

GetCloudProfileConfig(cloudProfile) ==
    IF cloudProfile.providerConfig # Nil /\ cloudProfile.providerConfig[1].raw # Nil
    THEN LET d == Decode(HelperDecoderStrict, cloudProfile.providerConfig[1].raw[1])
         IN  IF d.err # NoErr
             THEN [config |-> Nil, err |-> "could not decode providerConfig of cloudProfile"]
             ELSE [config |-> d.value, err |-> NoErr]
    ELSE [config |-> Ptr(CloudProfileConfigZero), err |-> NoErr]

\* GetInfrastructureConfig decoding whenever there is a provider config
GetInfrastructureConfigOfAnyRaw(infra) ==
    IF infra.providerConfig = Nil THEN [config |-> Ptr(InfrastructureConfigZero), err |-> NoErr]
    ELSE IF infra.providerConfig[1].raw = Nil
    THEN [config |-> Nil, err |-> "could not decode providerConfig of infrastructure"]
    ELSE LET d == Decode(HelperDecoderStrict, infra.providerConfig[1].raw[1])
         IN  IF d.err # NoErr
             THEN [config |-> Nil, err |-> "could not decode providerConfig of infrastructure"]
             ELSE [config |-> d.value, err |-> NoErr]

GetInfrastructureConfig(infra) ==
    IF infra.providerConfig # Nil /\ infra.providerConfig[1].raw # Nil
    THEN LET d == Decode(HelperDecoderStrict, infra.providerConfig[1].raw[1])
         IN  IF d.err # NoErr
             THEN [config |-> Nil, err |-> "could not decode providerConfig of infrastructure"]
             ELSE [config |-> d.value, err |-> NoErr]
    ELSE [config |-> Ptr(InfrastructureConfigZero), err |-> NoErr]

GetControlPlaneConfig(cp) ==
    IF cp.providerConfig # Nil /\ cp.providerConfig[1].raw # Nil
    THEN LET d == Decode(HelperDecoderStrict, cp.providerConfig[1].raw[1])
         IN  IF d.err # NoErr
             THEN [config |-> Nil, err |-> "could not decode providerConfig of controlplane"]
             ELSE [config |-> d.value, err |-> NoErr]
    ELSE [config |-> Ptr(ControlPlaneConfigZero), err |-> NoErr]

GetWorkerStatus(wk) ==
    IF wk.providerStatus # Nil /\ wk.providerStatus[1].raw # Nil
    THEN LET d == Decode(HelperDecoderStrict, wk.providerStatus[1].raw[1])
         IN  IF d.err # NoErr
             THEN [status |-> Nil, err |-> "could not decode providerStatus of worker"]
             ELSE [status |-> d.value, err |-> NoErr]
    ELSE [status |-> Ptr(WorkerStatusZero), err |-> NoErr]

ValidateNetworking(networking, path) ==
    IF networking.pods = "" THEN <<FieldError("ValidateNetworking", path, "pods is required")>> ELSE <<>>

ValidateInfrastructureConfig(config, path) ==
    IF config.networks = "bogus"
    THEN <<FieldError("ValidateInfrastructureConfig", path, "invalid networks")>> ELSE <<>>

ValidateControlPlaneConfig(config, version, path) ==
    IF config.featureGates = "bogus"
    THEN <<FieldError("ValidateControlPlaneConfig", path, "unknown feature gate")>> ELSE <<>>

ValidateWorkers(workers, path) ==
    IF workers = <<>> THEN <<FieldError("ValidateWorkers", path, "at least one worker is required")>> ELSE <<>>

ValidateWorkerConfig(config, dataVolumes, path) ==
    IF config.dnsPolicy = "Bogus"
    THEN <<FieldError("ValidateWorkerConfig", path, "unsupported dnsPolicy")>> ELSE <<>>

ValidateInfrastructureConfigUpdate(oldConfig, newConfig, path) ==
    IF oldConfig.networks # "" /\ newConfig.networks # oldConfig.networks
    THEN <<FieldError("ValidateInfrastructureConfigUpdate", path, "field is immutable")>> ELSE <<>>

ValidateControlPlaneConfigUpdate(oldConfig, newConfig, path) == <<>>

ValidateWorkersUpdate(oldWorkers, newWorkers, path) == <<>>

ValidateWorkerConfigUpdate(newConfig, oldConfig, path) ==
    IF newConfig.devices # oldConfig.devices
    THEN <<FieldError("ValidateWorkerConfigUpdate", path, "field is immutable")>> ELSE <<>>

ValidateCloudProviderSecret(secret) ==
    IF KubeconfigSecretKey \notin DOMAIN secret.data THEN "missing kubeconfig field in secret" ELSE NoErr

\* admission.Decode...Config: the payload decoded by the given decoder, the zero
\* value if there is no payload
DecodeConfig(strict, ext, zero) ==
    IF ext.raw = Nil THEN [config |-> Ptr(zero), err |-> NoErr]
    ELSE LET d == Decode(strict, ext.raw[1])
         IN  IF d.err # NoErr THEN [config |-> Nil, err |-> d.err]
             ELSE [config |-> d.value, err |-> NoErr]

-----------------------------------------------------------------------------
(* The shoot validator *)

\* the decoders InjectScheme creates
decoder == TRUE
strictDecoderForStored == TRUE
lenientDecoder == FALSE

\* what a validation did: the validation functions it called, in order, and
\* the field errors they returned
Nothing == [calls |-> <<>>, errors |-> <<>>]
Called(fn, path, errors) == [calls |-> <<[fn |-> fn, path |-> path]>>, errors |-> errors]
ThenUnlessFailed(a, b) == IF a.errors # <<>> THEN a ELSE [calls |-> a.calls \o b.calls, errors |-> b.errors]
Then(a, b) == [calls |-> a.calls \o b.calls, errors |-> a.errors \o b.errors]

RECURSIVE workerConfigsContexts(_, _, _, _)
workerConfigsContexts(shoot, dec, contexts, i) ==
    IF i > Len(shoot.workers) THEN [contexts |-> contexts, err |-> NoErr]
    ELSE LET wkr == shoot.workers[i]
             d == IF wkr.providerConfig # Nil THEN DecodeConfig(dec, wkr.providerConfig[1], WorkerConfigZero)
                  ELSE [config |-> Ptr(WorkerConfigZero), err |-> NoErr]
         IN  IF d.err # NoErr THEN [contexts |-> contexts, err |-> "could not decode providerConfig of worker"]
             ELSE workerConfigsContexts(shoot, dec,
                      Append(contexts, [workerConfig |-> d.config[1], dataVolumes |-> wkr.dataVolumes]),
                      i + 1)

newValidationContext(env, shoot, dec) ==
    LET ic == IF shoot.infrastructureConfig # Nil THEN DecodeConfig(dec, shoot.infrastructureConfig[1], InfrastructureConfigZero)
              ELSE [config |-> Ptr(InfrastructureConfigZero), err |-> NoErr] IN
    IF ic.err # NoErr THEN [context |-> Nil, err |-> "could not decode infrastructureConfig of shoot"] ELSE
    LET cp == IF shoot.controlPlaneConfig # Nil THEN DecodeConfig(dec, shoot.controlPlaneConfig[1], ControlPlaneConfigZero)
              ELSE [config |-> Ptr(ControlPlaneConfigZero), err |-> NoErr] IN
    IF cp.err # NoErr THEN [context |-> Nil, err |-> "could not decode controlPlaneConfig of shoot"] ELSE
    LET wc == workerConfigsContexts(shoot, dec, <<>>, 1) IN
    IF wc.err # NoErr THEN [context |-> Nil, err |-> wc.err] ELSE
    IF shoot.cloudProfileName \notin DOMAIN env.cloudProfiles
    THEN [context |-> Nil, err |-> "could not get cloud profile"] ELSE
    LET cloudProfile == env.cloudProfiles[shoot.cloudProfileName] IN
    IF cloudProfile.providerConfig = Nil
    THEN [context |-> Nil, err |-> "missing providerConfig in cloud profile"] ELSE
    LET cpc == DecodeConfig(dec, cloudProfile.providerConfig[1], CloudProfileConfigZero) IN
    IF cpc.err # NoErr THEN [context |-> Nil, err |-> "could not decode providerConfig of cloud profile"] ELSE
    [context |-> Ptr([shoot |-> shoot,
                      infrastructureConfig |-> ic.config[1],
                      controlPlaneConfig |-> cp.config[1],
                      workerConfigsContexts |-> wc.contexts,
                      cloudProfile |-> cloudProfile,
                      cloudProfileConfig |-> cpc.config[1]]),
     err |-> NoErr]

RECURSIVE validateWorkerConfigs(_, _)
validateWorkerConfigs(valContext, i) ==
    IF i > Len(valContext.workerConfigsContexts) THEN Nothing
    ELSE Then(Called("ValidateWorkerConfig", workerConfigPath(i - 1),
                     ValidateWorkerConfig(valContext.workerConfigsContexts[i].workerConfig,
                                          valContext.workerConfigsContexts[i].dataVolumes,
                                          workerConfigPath(i - 1))),
              validateWorkerConfigs(valContext, i + 1))

validateContext(valContext) ==
    Then(Called("ValidateNetworking", networkPath,
                ValidateNetworking(valContext.shoot.networking, networkPath)),
    Then(Called("ValidateInfrastructureConfig", infrastructureConfigPath,
                ValidateInfrastructureConfig(valContext.infrastructureConfig, infrastructureConfigPath)),
    Then(Called("ValidateControlPlaneConfig", controlPlaneConfigPath,
                ValidateControlPlaneConfig(valContext.controlPlaneConfig,
                                           valContext.shoot.kubernetesVersion, controlPlaneConfigPath)),
    Then(Called("ValidateWorkers", workersPath,
                ValidateWorkers(valContext.shoot.workers, workersPath)),
         validateWorkerConfigs(valContext, 1)))))

\* an aggregate of the field errors, or the nil error if there are none
ToAggregate(errors) == IF errors = <<>> THEN NoErr ELSE "aggregate"

validateShootSecret(env, shoot) ==
    IF shoot.secretBindingName \notin DOMAIN env.secretBindings
    THEN [calls |-> <<>>, err |-> "could not find secret binding"]
    ELSE IF env.secretBindings[shoot.secretBindingName] \notin DOMAIN env.secrets
    THEN [calls |-> <<>>, err |-> "could not find secret"]
    ELSE [calls |-> <<[fn |-> "ValidateCloudProviderSecret", path |-> <<>>]>>,
          err |-> ValidateCloudProviderSecret(env.secrets[env.secretBindings[shoot.secretBindingName]])]

validateCreate(env, shoot) ==
    LET vc == newValidationContext(env, shoot, decoder) IN
    IF vc.err # NoErr THEN [calls |-> <<>>, errors |-> <<>>, err |-> vc.err, context |-> Nil] ELSE
    LET v == validateContext(vc.context[1]) IN
    IF ToAggregate(v.errors) # NoErr
    THEN [calls |-> v.calls, errors |-> v.errors, err |-> ToAggregate(v.errors), context |-> vc.context]
    ELSE LET sec == validateShootSecret(env, shoot)
         IN  [calls |-> v.calls \o sec.calls, errors |-> <<>>, err |-> sec.err, context |-> vc.context]

workerConfigUpdateOfNamesakes(oldName, name, oldWorkerConfig, currentWorkerConfig) ==
    name = oldName

workerConfigUpdateOfAnyPool(oldName, name, oldWorkerConfig, currentWorkerConfig) ==
    oldWorkerConfig # currentWorkerConfig

\* the condition under which the worker config of a new pool is checked against
\* the worker config of an old pool
workerConfigUpdateNeeded(oldName, name, oldWorkerConfig, currentWorkerConfig) ==
    name = oldName /\ oldWorkerConfig # currentWorkerConfig

\* the loops over the new pools i and the old pools j, from (i, j) on
RECURSIVE validateWorkerConfigUpdates(_, _, _, _)
validateWorkerConfigUpdates(old, cur, i, j) ==
    IF i > Len(cur.workerConfigsContexts) THEN Nothing
    ELSE IF j > Len(old.workerConfigsContexts) THEN validateWorkerConfigUpdates(old, cur, i + 1, 1)
    ELSE LET currentWorkerConfig == cur.workerConfigsContexts[i].workerConfig
             oldWorkerConfig == old.workerConfigsContexts[j].workerConfig
         IN  Then(IF workerConfigUpdateNeeded(old.shoot.workers[j].name, cur.shoot.workers[i].name,
                                              oldWorkerConfig, currentWorkerConfig)
                  THEN Called("ValidateWorkerConfigUpdate", workerConfigPath(i - 1),
                              ValidateWorkerConfigUpdate(currentWorkerConfig, oldWorkerConfig,
                                                         workerConfigPath(i - 1)))
                  ELSE Nothing,
                  validateWorkerConfigUpdates(old, cur, i, j + 1))

validateUpdate(env, oldShoot, shoot) ==
    LET o == newValidationContext(env, oldShoot, lenientDecoder) IN
    IF o.err # NoErr THEN [calls |-> <<>>, errors |-> <<>>, err |-> o.err, context |-> Nil] ELSE
    LET c == newValidationContext(env, shoot, decoder) IN
    IF c.err # NoErr THEN [calls |-> <<>>, errors |-> <<>>, err |-> c.err, context |-> Nil] ELSE
    LET old == o.context[1]
        cur == c.context[1]
        v == Then(IF old.infrastructureConfig # cur.infrastructureConfig
                  THEN Called("ValidateInfrastructureConfigUpdate", infrastructureConfigPath,
                              ValidateInfrastructureConfigUpdate(old.infrastructureConfig,
                                                                 cur.infrastructureConfig,
                                                                 infrastructureConfigPath))
                  ELSE Nothing,
             Then(IF old.controlPlaneConfig # cur.controlPlaneConfig
                  THEN Called("ValidateControlPlaneConfigUpdate", controlPlaneConfigPath,
                              ValidateControlPlaneConfigUpdate(old.controlPlaneConfig,
                                                               cur.controlPlaneConfig,
                                                               controlPlaneConfigPath))
                  ELSE Nothing,
             Then(Called("ValidateWorkersUpdate", workersPath,
                         ValidateWorkersUpdate(old.shoot.workers, cur.shoot.workers, workersPath)),
             Then(validateWorkerConfigUpdates(old, cur, 1, 1),
                  validateContext(cur)))))
    IN  [calls |-> v.calls, errors |-> v.errors, err |-> ToAggregate(v.errors), context |-> c.context]

-----------------------------------------------------------------------------
(* Admission requests *)

MaxWorkers == 2

WorkerNames == {"a", "b"}

RawPayload(value) == Ptr([raw |-> Ptr([wellFormed |-> TRUE, unknownField |-> FALSE, value |-> value])])

WorkerConfigChoices ==
    {"none", "zero", "bogus", "devices"}

MkWorkerConfig(choice) ==
    CASE choice = "none" -> Nil
      [] choice = "zero" -> RawPayload(WorkerConfigZero)
      [] choice = "bogus" -> RawPayload([WorkerConfigZero EXCEPT !.dnsPolicy = "Bogus"])
      [] choice = "devices" -> RawPayload([WorkerConfigZero EXCEPT !.devices = Ptr("disk-1")])
      [] choice = "legacy" ->
            Ptr([raw |-> Ptr([wellFormed |-> TRUE, unknownField |-> TRUE, value |-> WorkerConfigZero])])
      [] choice = "malformed" ->
            Ptr([raw |-> Ptr([wellFormed |-> FALSE, unknownField |-> FALSE, value |-> WorkerConfigZero])])
      [] choice = "rawnil" -> Ptr([raw |-> Nil])

SectionChoices == {"none", "one", "two", "bogus"}

MkInfrastructureConfig(choice) ==
    CASE choice = "none" -> Nil
      [] choice = "one" -> RawPayload([networks |-> "net-1"])
      [] choice = "two" -> RawPayload([networks |-> "net-2"])
      [] choice = "bogus" -> RawPayload([networks |-> "bogus"])
      [] choice = "legacy" ->
            Ptr([raw |-> Ptr([wellFormed |-> TRUE, unknownField |-> TRUE, value |-> InfrastructureConfigZero])])
      [] choice = "rawnil" -> Ptr([raw |-> Nil])

MkControlPlaneConfig(choice) ==
    CASE choice = "none" -> Nil
      [] choice = "one" -> RawPayload([featureGates |-> "gate-1"])
      [] choice = "two" -> RawPayload([featureGates |-> "gate-2"])
      [] choice = "bogus" -> RawPayload([featureGates |-> "bogus"])
      [] choice = "legacy" ->
            Ptr([raw |-> Ptr([wellFormed |-> TRUE, unknownField |-> TRUE, value |-> ControlPlaneConfigZero])])
      [] choice = "rawnil" -> Ptr([raw |-> Nil])

\* a shoot whose worker i has name workers[i][1] and worker config workers[i][2]
MkShoot(workers, infra, controlPlane, pods) ==
    [name |-> "kv",
     namespace |-> "garden-dev",
     networking |-> [pods |-> pods],
     kubernetesVersion |-> "1.18.2",
     infrastructureConfig |-> MkInfrastructureConfig(infra),
     controlPlaneConfig |-> MkControlPlaneConfig(controlPlane),
     workers |-> [i \in 1..Len(workers) |->
                    [name |-> workers[i][1],
                     providerConfig |-> MkWorkerConfig(workers[i][2]),
                     dataVolumes |-> <<>>]],
     cloudProfileName |-> "kubevirt",
     secretBindingName |-> "kv-binding"]

EnvChoices ==
    {"good", "noprofile", "noprofileconfig", "rawnilprofile", "legacyprofile",
     "nobinding", "nosecret", "badsecret"}

MkEnv(choice) ==
    LET good == [cloudProfiles |-> [kubevirt |-> [providerConfig |-> RawPayload(CloudProfileConfig[1])]],
                 secretBindings |-> [x \in {"kv-binding"} |-> "kv-secret"],
                 secrets |-> [x \in {"kv-secret"} |-> [data |-> [kubeconfig |-> "kc"]]]]
    IN  CASE choice = "good" -> good
          [] choice = "noprofile" -> [good EXCEPT !.cloudProfiles = [other |-> [providerConfig |-> Nil]]]
          [] choice = "noprofileconfig" -> [good EXCEPT !.cloudProfiles = [kubevirt |-> [providerConfig |-> Nil]]]
          [] choice = "rawnilprofile" ->
                [good EXCEPT !.cloudProfiles = [kubevirt |-> [providerConfig |-> Ptr([raw |-> Nil])]]]
          [] choice = "legacyprofile" ->
                [good EXCEPT !.cloudProfiles =
                    [kubevirt |-> [providerConfig |->
                        Ptr([raw |-> Ptr([wellFormed |-> TRUE, unknownField |-> TRUE,
                                          value |-> CloudProfileConfig[1]])])]]]
          [] choice = "nobinding" -> [good EXCEPT !.secretBindings = [x \in {"other"} |-> "kv-secret"]]
          [] choice = "nosecret" -> [good EXCEPT !.secrets = [x \in {"other"} |-> [data |-> [kubeconfig |-> "kc"]]]]
          [] choice = "badsecret" -> [good EXCEPT !.secrets = [x \in {"kv-secret"} |-> [data |-> [token |-> "t"]]]]

WorkerLists(choices) == UNION {[1..n -> WorkerNames \X choices] : n \in 0..MaxWorkers}

\* the workers of a stored shoot have distinct names
StoredWorkerLists(choices) ==
    {ws \in WorkerLists(choices) : \A i, j \in 1..Len(ws) : ws[i][1] = ws[j][1] => i = j}

\* Validate(ctx, new, old) of the shoot validator: old is nil on create
Validate(env, old, new) ==
    IF old # Nil THEN validateUpdate(env, old[1], new) ELSE validateCreate(env, new)

Request(env, old, new) == [NoRequest EXCEPT !.env = env, !.old = old, !.new = Ptr(new)]

GoodPods == "100.96.0.0/11"

\* a shoot is created
ValidateOnCreate ==
    /\ req = NoRequest
    /\ \E ws \in WorkerLists(WorkerConfigChoices) : \E pods \in {"", GoodPods} :
       \E new \in {MkShoot(ws, "none", "none", pods)} :
          /\ req' = Request(MkEnv("good"), Nil, new)
          /\ resp' = Validate(MkEnv("good"), Nil, new)
    /\ UNCHANGED <<worker, w, last, prev, seed>>

\* a shoot is created: its sections, and what the validator reads from the cluster
ValidateOnSectionsCreate ==
    /\ req = NoRequest
    /\ \E infra \in SectionChoices \cup {"legacy", "rawnil"} :
       \E cp \in SectionChoices \cup {"legacy", "rawnil"} :
       \E wc \in {"none", "bogus", "legacy", "malformed", "rawnil"} : \E e \in EnvChoices :
       \E new \in {MkShoot(<<<<"a", wc>>>>, infra, cp, GoodPods)} :
          /\ req' = Request(MkEnv(e), Nil, new)
          /\ resp' = Validate(MkEnv(e), Nil, new)
    /\ UNCHANGED <<worker, w, last, prev, seed>>

\* a shoot is updated: its workers change
ValidateOnWorkersUpdate ==
    /\ req = NoRequest
    /\ \E olds \in StoredWorkerLists(WorkerConfigChoices) : \E news \in WorkerLists(WorkerConfigChoices) :
       \E old \in {MkShoot(olds, "one", "one", GoodPods)} :
       \E new \in {MkShoot(news, "one", "one", GoodPods)} :
          /\ req' = Request(MkEnv("good"), Ptr(old), new)
          /\ resp' = Validate(MkEnv("good"), Ptr(old), new)
    /\ UNCHANGED <<worker, w, last, prev, seed>>

\* a shoot is updated: its infrastructure and control plane config change
ValidateOnSectionsUpdate ==
    /\ req = NoRequest
    /\ \E oi \in SectionChoices : \E ni \in SectionChoices :
       \E oc \in SectionChoices : \E nc \in SectionChoices :
       \E ow \in {"none", "bogus"} : \E nw \in {"none", "bogus"} :
       \E old \in {MkShoot(<<<<"a", ow>>>>, oi, oc, GoodPods)} :
       \E new \in {MkShoot(<<<<"a", nw>>>>, ni, nc, GoodPods)} :
          /\ req' = Request(MkEnv("good"), Ptr(old), new)
          /\ resp' = Validate(MkEnv("good"), Ptr(old), new)
    /\ UNCHANGED <<worker, w, last, prev, seed>>

\* a shoot is updated: a stored or a new payload has a field the scheme does not know
ValidateOnLegacyUpdate ==
    /\ req = NoRequest
    /\ \E oi \in {"one", "legacy"} : \E ni \in {"one", "legacy"} :
       \E oc \in {"one", "legacy"} : \E nc \in {"one", "legacy"} :
       \E ow \in {"none", "legacy", "malformed"} : \E nw \in {"none", "legacy", "malformed"} :
       \E e \in {"good", "legacyprofile", "noprofile", "badsecret"} :
       \E old \in {MkShoot(<<<<"a", ow>>>>, oi, oc, GoodPods)} :
       \E new \in {MkShoot(<<<<"a", nw>>>>, ni, nc, GoodPods)} :
          /\ req' = Request(MkEnv(e), Ptr(old), new)
          /\ resp' = Validate(MkEnv(e), Ptr(old), new)
    /\ UNCHANGED <<worker, w, last, prev, seed>>

\* the extractors of helper and the values they are tried on
Extractors ==
    {"GetCloudProfileConfig", "GetInfrastructureConfig", "GetControlPlaneConfig",
     "GetWorkerConfig", "GetInfrastructureStatus", "GetWorkerStatus"}

ZeroOf(extractor) ==
    CASE extractor = "GetCloudProfileConfig" -> CloudProfileConfigZero
      [] extractor = "GetInfrastructureConfig" -> InfrastructureConfigZero
      [] extractor = "GetControlPlaneConfig" -> ControlPlaneConfigZero
      [] extractor = "GetWorkerConfig" -> WorkerConfigZero
      [] extractor = "GetInfrastructureStatus" -> InfrastructureStatusZero
      [] extractor = "GetWorkerStatus" -> WorkerStatusZero

ValueOf(extractor) ==
    CASE extractor = "GetCloudProfileConfig" -> CloudProfileConfig[1]
      [] extractor = "GetInfrastructureConfig" -> [networks |-> "net-1"]
      [] extractor = "GetControlPlaneConfig" -> [featureGates |-> "gate-1"]
      [] extractor = "GetWorkerConfig" -> [WorkerConfigZero EXCEPT !.devices = Ptr("disk-1")]
      [] extractor = "GetInfrastructureStatus" -> [networks |-> <<"net-1">>]
      [] extractor = "GetWorkerStatus" -> [machineImages |-> <<"ubuntu">>]

SectionsOf(extractor) ==
    {Nil, Ptr([raw |-> Nil]), RawPayload(ZeroOf(extractor)), RawPayload(ValueOf(extractor)),
     Ptr([raw |-> Ptr([wellFormed |-> TRUE, unknownField |-> TRUE, value |-> ValueOf(extractor)])]),
     Ptr([raw |-> Ptr([wellFormed |-> FALSE, unknownField |-> FALSE, value |-> ZeroOf(extractor)])])}

Extracted(extractor, section) ==
    CASE extractor = "GetCloudProfileConfig" ->
            LET r == GetCloudProfileConfig([providerConfig |-> section])
            IN  [value |-> r.config, err |-> r.err]
      [] extractor = "GetInfrastructureConfig" ->
            LET r == GetInfrastructureConfig([providerConfig |-> section])
            IN  [value |-> r.config, err |-> r.err]
      [] extractor = "GetControlPlaneConfig" ->
            LET r == GetControlPlaneConfig([providerConfig |-> section])
            IN  [value |-> r.config, err |-> r.err]
      [] extractor = "GetWorkerConfig" ->
            LET r == GetWorkerConfig([providerConfig |-> section])
            IN  [value |-> r.config, err |-> r.err]
      [] extractor = "GetInfrastructureStatus" ->
            LET r == GetInfrastructureStatus([infrastructureProviderStatus |-> section])
            IN  [value |-> r.status, err |-> r.err]
      [] extractor = "GetWorkerStatus" ->
            LET r == GetWorkerStatus([providerStatus |-> section])
            IN  [value |-> r.status, err |-> r.err]

\* an extractor of helper is called on an object with the given section
Extract ==
    /\ req = NoRequest
    /\ \E extractor \in Extractors : \E section \in SectionsOf(extractor) :
       \E r \in {Extracted(extractor, section)} :
          /\ req' = [NoRequest EXCEPT !.extractor = extractor, !.section = section]
          /\ last' = [NoCall EXCEPT !.op = extractor, !.err = r.err, !.returned = r.value]
    /\ UNCHANGED <<worker, w, prev, seed, resp>>

InitShoot ==
    /\ worker = MkWorker(<<>>, "good")
    /\ w = freshDelegate
    /\ last = NoCall
    /\ prev = NoRuns
    /\ seed = NoSeed
    /\ req = NoRequest
    /\ resp = NoResponse

NextShoot ==
    \/ ValidateOnCreate
    \/ ValidateOnSectionsCreate
    \/ ValidateOnWorkersUpdate
    \/ ValidateOnSectionsUpdate
    \/ ValidateOnLegacyUpdate
    \/ Extract

SpecShoot == InitShoot /\ [][NextShoot]_vars

-----------------------------------------------------------------------------
(* What the results of a run are read by *)

\* the delegate holds the results of a successful run for the current worker
Generated == "machineDeployments" \notin w.isNil

\* the number of (pool, zone) pairs before pool p
ZoneOffset(pools, p) == SumSeq([q \in 1..(p - 1) |-> Len(pools[q].zones)])

\* the machine classes and the machine deployments of pool p in the results of a run
ClassesOf(out, pools, p) ==
    SubSeq(out.machineClasses, ZoneOffset(pools, p) + 1, ZoneOffset(pools, p) + Len(pools[p].zones))

DeploymentsOf(out, pools, p) ==
    SubSeq(out.machineDeployments, ZoneOffset(pools, p) + 1, ZoneOffset(pools, p) + Len(pools[p].zones))

Names(list) == [i \in 1..Len(list) |-> list[i].name]

\* the sources a data volume spec sets
Sources(spec) == {s \in {"pvc", "http", "blank"} : spec.source[s] # Nil}

BothRuns == prev.last # Nil /\ prev.before # Nil

-----------------------------------------------------------------------------
(* C1 *)

\* C1: two successful runs of generateMachineConfig for the same worker (pools,
\* zones, region, SSH key, catalog, networks, kubeconfig) produce the same
\* ordered machine class names, the same ordered machine deployments, the same
\* machine images and the same machineClassVolumes.
C1_Deterministic ==
    (BothRuns /\ prev.last[1].worker = prev.before[1].worker) =>
        /\ Names(prev.last[1].out.machineClasses) = Names(prev.before[1].out.machineClasses)
        /\ prev.last[1].out.machineDeployments = prev.before[1].out.machineDeployments
        /\ prev.last[1].out.machineImages = prev.before[1].out.machineImages
        /\ prev.last[1].out.machineClassVolumes = prev.before[1].out.machineClassVolumes

\* a second run on a delegate that already holds two classes and a class volume
C1_Witness ==
    /\ BothRuns
    /\ prev.last[1].worker = prev.before[1].worker
    /\ last.op = "generateMachineConfig"
    /\ Len(prev.before[1].out.machineClasses) >= 2
    /\ DOMAIN prev.before[1].out.machineClassVolumes # {}

-----------------------------------------------------------------------------
(* C2 *)

\* C2: a run of generateMachineConfig that returns an error modifies none of
\* machineDeployments, machineClasses, machineImages, machineClassVolumes of
\* the delegate, also when pools before the failing one were processed.
C2_AllOrNothing ==
    [][(last'.generated /\ last'.err # NoErr) => (w' = w)]_vars

\* a run failed on a later pool, after classes of earlier pools had been built,
\* and the delegate is still as it was created
C2_Witness ==
    /\ last.generated
    /\ last.err # NoErr
    /\ last.partial > 0
    /\ Len(worker.pools) >= 2
    /\ w = freshDelegate

-----------------------------------------------------------------------------
(* C3 *)

\* C3: every DataVolumeSpec of the results (root volumes, additional volumes,
\* machine class volumes) sets exactly one of the sources PVC, HTTP, Blank, and
\* every additional volume is blank.
C3_OneSource ==
    /\ \A i \in 1..Len(w.machineClasses) :
          /\ Cardinality(Sources(w.machineClasses[i].rootVolume)) = 1
          /\ \A j \in 1..Len(w.machineClasses[i].additionalVolumes) :
                Sources(w.machineClasses[i].additionalVolumes[j].dataVolume) = {"blank"}
    /\ \A k \in DOMAIN w.machineClassVolumes : Cardinality(Sources(w.machineClassVolumes[k])) = 1

\* results with an additional volume, a PVC root volume and a machine class volume
C3_Witness ==
    /\ Generated
    /\ \E i \in 1..Len(w.machineClasses) :
          /\ w.machineClasses[i].additionalVolumes # <<>>
          /\ Sources(w.machineClasses[i].rootVolume) = {"pvc"}
    /\ \E i \in 1..Len(w.machineClasses) : Sources(w.machineClasses[i].rootVolume) = {"http"}
    /\ DOMAIN w.machineClassVolumes # {}

-----------------------------------------------------------------------------
(* C4 *)

PreAllocationDisabled(pool) ==
    /\ pool.providerConfig # Nil
    /\ pool.providerConfig[1].raw # Nil
    /\ pool.providerConfig[1].raw[1].value.disablePreAllocatedDataVolumes

ImageURLOf(wk, pool) ==
    LET images == wk.cloudProfileConfig[1].machineImages
    IN  (CHOOSE i \in Range(images) :
            i.name = pool.machineImage.name /\ i.version = pool.machineImage.version).sourceURL

ProviderNamespace(wk) == wk.secret[1].data.kubeconfig.namespace

\* C4: with pre-allocation enabled the root volume of class C is PVC-sourced
\* from (provider namespace, C) and machineClassVolumes maps C to an
\* HTTP-sourced spec with the image URL and the same storage class and size;
\* with pre-allocation disabled the root volume is HTTP-sourced with the image
\* URL and machineClassVolumes has no key C.
C4_VolumeStrategy ==
    Generated =>
        \A p \in 1..Len(worker.pools) :
            LET pool == worker.pools[p]
                classes == ClassesOf(w, worker.pools, p)
            IN  \A z \in 1..Len(classes) :
                    LET C == classes[z].name
                        root == classes[z].rootVolume
                    IN  IF ~PreAllocationDisabled(pool)
                        THEN /\ root.source = [pvc |-> Ptr([namespace |-> ProviderNamespace(worker), name |-> C]),
                                               http |-> Nil, blank |-> Nil]
                             /\ C \in DOMAIN w.machineClassVolumes
                             /\ w.machineClassVolumes[C].source =
                                    [pvc |-> Nil, http |-> Ptr([url |-> ImageURLOf(worker, pool)]), blank |-> Nil]
                             /\ w.machineClassVolumes[C].pvc = root.pvc
                        ELSE /\ root.source =
                                    [pvc |-> Nil, http |-> Ptr([url |-> ImageURLOf(worker, pool)]), blank |-> Nil]
                             /\ C \notin DOMAIN w.machineClassVolumes

\* results for a pool with pre-allocation and a pool without, each with a zone
C4_Witness ==
    /\ Generated
    /\ \E p \in 1..Len(worker.pools) :
          PreAllocationDisabled(worker.pools[p]) /\ worker.pools[p].zones # <<>>
    /\ \E p \in 1..Len(worker.pools) :
          ~PreAllocationDisabled(worker.pools[p]) /\ worker.pools[p].zones # <<>>

-----------------------------------------------------------------------------
(* C5, C6 *)

\* an int-or-percent bound of a pool, a percentage resolved against its reference
Resolved(intOrPercent, reference) ==
    IF intOrPercent.type = "Int" THEN intOrPercent.intVal
    ELSE ResolvePercent(intOrPercent.percent, reference)

Shares(deployments, f) == [i \in 1..Len(deployments) |-> deployments[i][f]]
IntShares(deployments, f) == [i \in 1..Len(deployments) |-> deployments[i][f].intVal]

Conserves(shares, total) ==
    /\ SumSeq(shares) = total
    /\ \A i \in 1..Len(shares) : shares[i] >= 0
    /\ (total = 0 => \A i \in 1..Len(shares) : shares[i] = 0)

\* C5: for every pool with at least one zone the per-zone Minimum, Maximum,
\* MaxSurge and MaxUnavailable of its deployments sum to the pool's Minimum,
\* Maximum, MaxSurge (resolved against Maximum) and MaxUnavailable (resolved
\* against Minimum); every share is >= 0 and a total of 0 gives 0 everywhere.
C5_Conservation ==
    Generated =>
        \A p \in 1..Len(worker.pools) :
            LET pool == worker.pools[p]
                ds == DeploymentsOf(w, worker.pools, p)
            IN  Len(pool.zones) >= 1 =>
                    /\ Len(ds) = Len(pool.zones)
                    /\ Conserves(Shares(ds, "minimum"), pool.minimum)
                    /\ Conserves(Shares(ds, "maximum"), pool.maximum)
                    /\ \A i \in 1..Len(ds) : ds[i].maxSurge.type = "Int" /\ ds[i].maxUnavailable.type = "Int"
                    /\ Conserves(IntShares(ds, "maxSurge"), Resolved(pool.maxSurge, pool.maximum))
                    /\ Conserves(IntShares(ds, "maxUnavailable"), Resolved(pool.maxUnavailable, pool.minimum))

\* deployments of a pool with two zones whose totals do not divide evenly
C5_Witness ==
    /\ Generated
    /\ Len(worker.pools[1].zones) = 2
    /\ worker.pools[1].minimum % 2 = 1
    /\ worker.pools[1].maxSurge.type = "String"
    /\ Resolved(worker.pools[1].maxSurge, worker.pools[1].maximum) % 2 = 1
    /\ Len(w.machineDeployments) = 2

TheExamplePool(pool) ==
    /\ Len(pool.zones) = 2
    /\ pool.minimum = 4
    /\ pool.maximum = 6
    /\ pool.maxSurge = FromPercent(50)
    /\ pool.maxUnavailable = FromInt(0)

\* C6: a pool with 2 zones, minimum 4, maximum 6, maxSurge 50% and
\* maxUnavailable 0 gives deployments with Minimum (2,2), Maximum (3,3),
\* MaxSurge (2,1) and MaxUnavailable (0,0).
C6_Example ==
    (Generated /\ TheExamplePool(worker.pools[1])) =>
        /\ Shares(w.machineDeployments, "minimum") = <<2, 2>>
        /\ Shares(w.machineDeployments, "maximum") = <<3, 3>>
        /\ Shares(w.machineDeployments, "maxSurge") = <<FromInt(2), FromInt(1)>>
        /\ Shares(w.machineDeployments, "maxUnavailable") = <<FromInt(0), FromInt(0)>>

\* the deployments of the example pool have been generated
C6_Witness ==
    /\ Generated
    /\ TheExamplePool(worker.pools[1])
    /\ Len(w.machineDeployments) = 2

-----------------------------------------------------------------------------
(* C7, C8 *)

\* two workers that differ in pool q and in nothing else
DiffersOnlyInPool(a, b, q) ==
    /\ Len(a.pools) = Len(b.pools)
    /\ q \in 1..Len(a.pools)
    /\ a.pools[q] # b.pools[q]
    /\ [a EXCEPT !.pools[q] = b.pools[q]] = b

\* two workers that differ in the networks of the infrastructure status only
DiffersOnlyInNetworks(a, b) ==
    /\ a # b
    /\ a.infrastructureProviderStatus # Nil /\ b.infrastructureProviderStatus # Nil
    /\ [a EXCEPT !.infrastructureProviderStatus[1].raw[1].value.networks = NetworksOf(b)] = b

SameNameAndZones(a, b, q) ==
    /\ a.pools[q].name = b.pools[q].name
    /\ a.pools[q].zones = b.pools[q].zones

Before == prev.before[1]
After == prev.last[1]

\* the machine class of every zone that pool q has in both runs has another name
ClassNamesChanged(q) ==
    LET old == Names(ClassesOf(Before.out, Before.worker.pools, q))
        new == Names(ClassesOf(After.out, After.worker.pools, q))
    IN  \A z \in 1..Len(new) : z <= Len(old) => new[z] # old[z]

DeploymentNamesSame ==
    Names(After.out.machineDeployments) = Names(Before.out.machineDeployments)

\* C7 as stated: between two runs that differ only in a hashed input of a pool
\* (any field of the pool's spec, or a token of a network) the machine class
\* name of every zone of that pool changes and every machine deployment name
\* stays the same.
C7_Original ==
    BothRuns =>
        /\ \A q \in 1..Len(After.worker.pools) :
              DiffersOnlyInPool(Before.worker, After.worker, q) =>
                  ClassNamesChanged(q) /\ DeploymentNamesSame
        /\ DiffersOnlyInNetworks(Before.worker, After.worker) =>
              /\ \A q \in 1..Len(After.worker.pools) : ClassNamesChanged(q)
              /\ DeploymentNamesSame

\* C7 as amended: between two runs that differ only in a hashed input of a
\* pool other than the pool's name and zone list (any other field of the
\* pool's spec, or the name, default flag or SHA of a network) the machine
\* class name of every zone of that pool changes and every machine deployment
\* name stays the same.
C7_Rollover ==
    BothRuns =>
        /\ \A q \in 1..Len(After.worker.pools) :
              (DiffersOnlyInPool(Before.worker, After.worker, q)
                  /\ SameNameAndZones(Before.worker, After.worker, q)) =>
                  ClassNamesChanged(q) /\ DeploymentNamesSame
        /\ DiffersOnlyInNetworks(Before.worker, After.worker) =>
              /\ \A q \in 1..Len(After.worker.pools) : ClassNamesChanged(q)
              /\ DeploymentNamesSame

\* a second run after the SHA of a network changed, for a pool with two zones
C7_Witness ==
    /\ BothRuns
    /\ DiffersOnlyInNetworks(Before.worker, After.worker)
    /\ \E j \in 1..Len(NetworksOf(After.worker)) :
          NetworksOf(After.worker)[j].sha # NetworksOf(Before.worker)[j].sha
    /\ Len(After.worker.pools[1].zones) = 2
    /\ Len(After.out.machineClasses) >= 2

\* the keys of machineClassVolumes that belong to the classes of pool p
VolumeKeysOf(run, p) ==
    Range(Names(ClassesOf(run.out, run.worker.pools, p))) \cap DOMAIN run.out.machineClassVolumes

\* C8: between two runs that differ only in the spec of pool q, the machine
\* class names (hence the pool hash), the deployment names and the class
\* volume keys of every other pool are the same.
C8_Isolation ==
    BothRuns =>
        \A q \in 1..Len(After.worker.pools) :
            DiffersOnlyInPool(Before.worker, After.worker, q) =>
                \A p \in (1..Len(After.worker.pools)) \ {q} :
                    /\ Names(ClassesOf(After.out, After.worker.pools, p))
                          = Names(ClassesOf(Before.out, Before.worker.pools, p))
                    /\ Names(DeploymentsOf(After.out, After.worker.pools, p))
                          = Names(DeploymentsOf(Before.out, Before.worker.pools, p))
                    /\ VolumeKeysOf(After, p) = VolumeKeysOf(Before, p)

\* a second run after pool 1 changed, pool 2 having zones and a class volume
C8_Witness ==
    /\ BothRuns
    /\ DiffersOnlyInPool(Before.worker, After.worker, 1)
    /\ Len(After.worker.pools) >= 2
    /\ Len(After.worker.pools[2].zones) = 2
    /\ VolumeKeysOf(After, 2) # {}

-----------------------------------------------------------------------------
(* C9 *)

ImageKey(image) == <<image.name, image.version>>

\* C9: machineImages has no two entries with the same (name, version) and
\* holds the (name, version) of the image of every pool.
C9_ImageDedup ==
    Generated =>
        /\ \A i, j \in 1..Len(w.machineImages) :
              ImageKey(w.machineImages[i]) = ImageKey(w.machineImages[j]) => i = j
        /\ \A p \in 1..Len(worker.pools) :
              \E i \in 1..Len(w.machineImages) :
                  ImageKey(w.machineImages[i]) = ImageKey(worker.pools[p].machineImage)

\* two pools with the same image gave one entry
C9_Witness ==
    /\ Generated
    /\ Len(worker.pools) >= 2
    /\ worker.pools[1].machineImage = worker.pools[2].machineImage
    /\ Len(w.machineImages) = 1

-----------------------------------------------------------------------------
(* Update validation *)

IsUpdate == req.old # Nil

\* both validation contexts of an update were built
ContextsBuilt == IsUpdate /\ resp.calls # <<>>

OldShoot == req.old[1]
NewShoot == req.new[1]

WorkerConfigOf(wkr, dec) ==
    IF wkr.providerConfig = Nil THEN WorkerConfigZero
    ELSE DecodeConfig(dec, wkr.providerConfig[1], WorkerConfigZero).config[1]

SectionOf(section, zero, dec) ==
    IF section = Nil THEN zero ELSE DecodeConfig(dec, section[1], zero).config[1]

\* the decoded worker config of the new pool i differs from that of an old pool of its name
WorkerConfigChanged(i) ==
    \E j \in 1..Len(OldShoot.workers) :
        /\ OldShoot.workers[j].name = NewShoot.workers[i].name
        /\ WorkerConfigOf(OldShoot.workers[j], lenientDecoder) # WorkerConfigOf(NewShoot.workers[i], decoder)

InfrastructureConfigChanged ==
    SectionOf(OldShoot.infrastructureConfig, InfrastructureConfigZero, lenientDecoder)
        # SectionOf(NewShoot.infrastructureConfig, InfrastructureConfigZero, decoder)

ControlPlaneConfigChanged ==
    SectionOf(OldShoot.controlPlaneConfig, ControlPlaneConfigZero, lenientDecoder)
        # SectionOf(NewShoot.controlPlaneConfig, ControlPlaneConfigZero, decoder)

CalledFor(fn, path) == \E k \in 1..Len(resp.calls) : resp.calls[k] = [fn |-> fn, path |-> path]

-----------------------------------------------------------------------------
(* C11 *)

CallCount(fn, path) ==
    Cardinality({k \in 1..Len(resp.calls) : resp.calls[k] = [fn |-> fn, path |-> path]})

\* the old pools of the name of the new pool i whose decoded worker config is another
ChangedNamesakes(i) ==
    {j \in 1..Len(OldShoot.workers) :
        /\ OldShoot.workers[j].name = NewShoot.workers[i].name
        /\ WorkerConfigOf(OldShoot.workers[j], FALSE) # WorkerConfigOf(NewShoot.workers[i], TRUE)}

\* C11: on update, ValidateWorkerConfigUpdate is called for the new pool i once
\* for every old pool of the same name whose decoded worker config differs,
\* and for no other old pool, whatever the positions of the pools; reordered
\* pools with unchanged configs and added pools get no update check.
C11_PairedByName ==
    ContextsBuilt =>
        \A i \in 1..Len(NewShoot.workers) :
            CallCount("ValidateWorkerConfigUpdate", workerConfigPath(i - 1))
                = Cardinality(ChangedNamesakes(i))

\* pools [a, b] with different worker configs are reordered to [b, a]: every
\* pool has another config than the old pool at its position, no update check
C11_Witness ==
    /\ ContextsBuilt
    /\ Len(NewShoot.workers) = 2 /\ Len(OldShoot.workers) = 2
    /\ NewShoot.workers[1] = OldShoot.workers[2]
    /\ NewShoot.workers[2] = OldShoot.workers[1]
    /\ NewShoot.workers[1].name # NewShoot.workers[2].name
    /\ WorkerConfigOf(NewShoot.workers[1], TRUE) # WorkerConfigOf(NewShoot.workers[2], TRUE)
    /\ \A i \in 1..2 : ~CalledFor("ValidateWorkerConfigUpdate", workerConfigPath(i - 1))
    /\ \A i \in 1..2 : CalledFor("ValidateWorkerConfig", workerConfigPath(i - 1))

-----------------------------------------------------------------------------
(* C12 *)

\* the payload of a section, if it has one
RawOf(section) ==
    IF section = Nil THEN {} ELSE IF section[1].raw = Nil THEN {} ELSE {section[1].raw[1]}

PayloadsOf(shoot) ==
    RawOf(shoot.infrastructureConfig) \cup RawOf(shoot.controlPlaneConfig)
        \cup UNION {RawOf(shoot.workers[i].providerConfig) : i \in 1..Len(shoot.workers)}

ProfilePayloads ==
    IF NewShoot.cloudProfileName \in DOMAIN req.env.cloudProfiles
    THEN RawOf(req.env.cloudProfiles[NewShoot.cloudProfileName].providerConfig)
    ELSE {}

DecodeErrors ==
    {"could not decode infrastructureConfig of shoot",
     "could not decode controlPlaneConfig of shoot",
     "could not decode providerConfig of worker",
     "could not decode providerConfig of cloud profile"}

Rejected(payload) == payload.unknownField \/ ~payload.wellFormed

\* C12: a payload of the new shoot with an unknown field makes Validate fail,
\* on create with a decode error; a payload of the old shoot with an unknown
\* field does not: an update fails with a decode error only if a payload of
\* the old shoot is malformed, or a payload of the new shoot or of the cloud
\* profile is malformed or has an unknown field.
C12_DecoderAsymmetry ==
    req.new # Nil =>
        /\ (\E payload \in PayloadsOf(NewShoot) : Rejected(payload)) =>
              /\ resp.err # NoErr
              /\ ~IsUpdate => resp.err \in DecodeErrors
        /\ (IsUpdate /\ resp.err \in DecodeErrors) =>
              \/ \E payload \in PayloadsOf(OldShoot) : ~payload.wellFormed
              \/ \E payload \in PayloadsOf(NewShoot) \cup ProfilePayloads : Rejected(payload)

\* an update whose old shoot has payloads with an unknown field was validated
C12_Witness ==
    /\ ContextsBuilt
    /\ \E payload \in RawOf(OldShoot.infrastructureConfig) : payload.unknownField
    /\ \E payload \in RawOf(OldShoot.workers[1].providerConfig) : payload.unknownField
    /\ resp.err = NoErr

-----------------------------------------------------------------------------
(* C13 *)

\* the networks of the infrastructure status of the worker
StatusNetworks(wk) == GetInfrastructureStatus(wk).status[1].networks

\* the hash of pool p of the worker
HashOf(wk, p) == WorkerPoolHash(wk.pools[p], wk.cluster, networksData(StatusNetworks(wk))).hash

\* C13: for the zone at 0-based position i of pool P the deployment is named
\* (namespace, P.name, z, i + 1), the class is named by the deployment name
\* and P's hash, ClassName and SecretName of the deployment and the
\* machineclass tag of the class are the class name, and minimum and maximum
\* are the shares of the 0-based index i.
C13_Naming ==
    Generated =>
        \A p \in 1..Len(worker.pools) :
            LET pool == worker.pools[p]
                classes == ClassesOf(w, worker.pools, p)
                deployments == DeploymentsOf(w, worker.pools, p)
            IN  \A z \in 1..Len(pool.zones) :
                    /\ deployments[z].name = <<worker.namespace, pool.name, "z", z>>
                    /\ classes[z].name = <<deployments[z].name, HashOf(worker, p)>>
                    /\ deployments[z].className = classes[z].name
                    /\ deployments[z].secretName = classes[z].name
                    /\ classes[z].tags.machineclass = classes[z].name
                    /\ classes[z].name[2] = classes[1].name[2]
                    /\ deployments[z].minimum = DistributeOverZones(z - 1, pool.minimum, Len(pool.zones))
                    /\ deployments[z].maximum = DistributeOverZones(z - 1, pool.maximum, Len(pool.zones))

\* results for a second pool that has two zones or more
C13_Witness ==
    /\ Generated
    /\ Len(worker.pools) >= 2
    /\ Len(worker.pools[1].zones) >= 1
    /\ Len(worker.pools[2].zones) >= 2
    /\ Len(w.machineDeployments) >= 3
    /\ w.machineDeployments[3].name[4] = 2

-----------------------------------------------------------------------------
(* C14 *)

\* the (pool, zone) pairs of the pools from pool p on, pools in the order of
\* the list and the zones of a pool in the order of its zone list
RECURSIVE PoolZonePairs(_, _)
PoolZonePairs(pools, p) ==
    IF p > Len(pools) THEN <<>>
    ELSE [z \in 1..Len(pools[p].zones) |-> <<p, z>>] \o PoolZonePairs(pools, p + 1)

\* the elements of a sequence in the order of their first occurrence
RECURSIVE FirstOccurrences(_, _)
FirstOccurrences(seq, seen) ==
    IF seq = <<>> THEN <<>>
    ELSE IF Head(seq) \in seen THEN FirstOccurrences(Tail(seq), seen)
    ELSE <<Head(seq)>> \o FirstOccurrences(Tail(seq), seen \cup {Head(seq)})

\* C14: the k-th machine class and the k-th machine deployment are those of
\* the k-th (pool, zone) pair in the order of the pool list and of the zone
\* lists; the machine images are in the order of the first pool that
\* references each (name, version).
C14_OutputOrder ==
    Generated =>
        LET pairs == PoolZonePairs(worker.pools, 1)
        IN  /\ Len(w.machineClasses) = Len(pairs)
            /\ Len(w.machineDeployments) = Len(pairs)
            /\ \A k \in 1..Len(pairs) :
                  LET pool == worker.pools[pairs[k][1]]
                      z == pairs[k][2]
                  IN  /\ w.machineClasses[k].zone = pool.zones[z]
                      /\ w.machineClasses[k].name[1] = <<worker.namespace, pool.name, "z", z>>
                      /\ w.machineClasses[k].secret.cloudConfig = pool.userData
                      /\ w.machineDeployments[k].name = <<worker.namespace, pool.name, "z", z>>
                      /\ w.machineDeployments[k].labels = pool.labels
            /\ [i \in 1..Len(w.machineImages) |-> ImageKey(w.machineImages[i])]
                  = FirstOccurrences([p \in 1..Len(worker.pools) |-> ImageKey(worker.pools[p].machineImage)], {})

\* results for two pools with zones and different images, a pool between
\* them or after them repeating an image
C14_Witness ==
    /\ Generated
    /\ Len(worker.pools) >= 2
    /\ Len(worker.pools[1].zones) >= 2
    /\ Len(worker.pools[2].zones) >= 1
    /\ worker.pools[1].machineImage.version = "20.04"
    /\ worker.pools[2].machineImage.version = "18.04"
    /\ Len(w.machineImages) = 2
    /\ w.machineImages[1].version = "20.04"

-----------------------------------------------------------------------------
(* C15 *)

IsCreate == req.new # Nil /\ req.old = Nil

\* the validation context of the new shoot was built, and on update that of
\* the old shoot as well
Validated == req.new # Nil /\ resp.calls # <<>>

Violation(by, field) == [by |-> by, field |-> field]

\* what the new shoot violates by itself
ShootViolations ==
    {Violation("ValidateNetworking", networkPath) : x \in {1} \cap {IF NewShoot.networking.pods = "" THEN 1 ELSE 0}}
    \cup {Violation("ValidateInfrastructureConfig", infrastructureConfigPath) :
            payload \in {q \in RawOf(NewShoot.infrastructureConfig) : q.value.networks = "bogus"}}
    \cup {Violation("ValidateControlPlaneConfig", controlPlaneConfigPath) :
            payload \in {q \in RawOf(NewShoot.controlPlaneConfig) : q.value.featureGates = "bogus"}}
    \cup {Violation("ValidateWorkers", workersPath) : x \in {1} \cap {IF NewShoot.workers = <<>> THEN 1 ELSE 0}}
    \cup {Violation("ValidateWorkerConfig", workerConfigPath(i - 1)) :
            i \in {k \in 1..Len(NewShoot.workers) :
                     \E q \in RawOf(NewShoot.workers[k].providerConfig) : q.value.dnsPolicy = "Bogus"}}

\* what the new shoot violates as an update of the old shoot
UpdateViolations ==
    IF ~IsUpdate THEN {}
    ELSE {Violation("ValidateInfrastructureConfigUpdate", infrastructureConfigPath) :
            payload \in {q \in RawOf(OldShoot.infrastructureConfig) :
                           /\ q.value.networks # ""
                           /\ SectionOf(NewShoot.infrastructureConfig, InfrastructureConfigZero, TRUE).networks
                                 # q.value.networks}}
         \cup {Violation("ValidateWorkerConfigUpdate", workerConfigPath(i - 1)) :
                 i \in {k \in 1..Len(NewShoot.workers) :
                          \E j \in 1..Len(OldShoot.workers) :
                              /\ OldShoot.workers[j].name = NewShoot.workers[k].name
                              /\ WorkerConfigOf(OldShoot.workers[j], FALSE).devices
                                    # WorkerConfigOf(NewShoot.workers[k], TRUE).devices}}

Reported(v) == \E k \in 1..Len(resp.errors) : resp.errors[k].by = v.by /\ resp.errors[k].field = v.field

\* the secret of the shoot's secret binding is missing or has no kubeconfig
SecretViolated ==
    \/ NewShoot.secretBindingName \notin DOMAIN req.env.secretBindings
    \/ req.env.secretBindings[NewShoot.secretBindingName] \notin DOMAIN req.env.secrets
    \/ KubeconfigSecretKey \notin DOMAIN req.env.secrets[req.env.secretBindings[NewShoot.secretBindingName]].data

SecretErrors ==
    {"could not find secret binding", "could not find secret", "missing kubeconfig field in secret"}

\* C15 as stated: every violation of a validated request is returned: those of
\* networking, infrastructure config, control plane config, workers and every
\* worker config, and on create that of the cloud provider secret, none of
\* them hidden by another.
C15_Original ==
    Validated =>
        /\ \A v \in ShootViolations \cup UpdateViolations : Reported(v)
        /\ (IsCreate /\ SecretViolated) => resp.err \in SecretErrors

\* C15: every field violation of a validated request is returned, those of
\* networking, infrastructure config, control plane config, workers and every
\* worker config, and on update those of the update checks, together in one
\* aggregate; the cloud provider secret is validated on create only and only
\* if there is no field violation.
C15_FieldViolationsAggregated ==
    Validated =>
        /\ \A v \in ShootViolations \cup UpdateViolations : Reported(v)
        /\ resp.errors # <<>> => resp.err = "aggregate"
        /\ CalledFor("ValidateCloudProviderSecret", <<>>) => (IsCreate /\ resp.errors = <<>>)
        /\ (IsCreate /\ resp.errors = <<>>) => (SecretViolated <=> resp.err \in SecretErrors)
        /\ (IsCreate /\ resp.errors # <<>>) => resp.err \notin SecretErrors
        /\ IsUpdate => resp.err \notin SecretErrors

\* a shoot is created whose networking and two worker configs are in violation
C15_Witness ==
    /\ IsCreate
    /\ Validated
    /\ Len(NewShoot.workers) = 2
    /\ Reported(Violation("ValidateNetworking", networkPath))
    /\ Reported(Violation("ValidateWorkerConfig", workerConfigPath(0)))
    /\ Reported(Violation("ValidateWorkerConfig", workerConfigPath(1)))
    /\ Len(resp.errors) = 3
    /\ resp.err = "aggregate"

-----------------------------------------------------------------------------
(* C16 *)

\* the machine type of a pool in the catalog
MachineTypeOf(wk, pool) == FirstNamed(wk.cluster.cloudProfile.machineTypes, pool.machineType)

\* the machine type of the pool has storage with a size
HasStorage(wk, pool) ==
    /\ MachineTypeOf(wk, pool) # Nil
    /\ MachineTypeOf(wk, pool)[1].storage # Nil
    /\ MachineTypeOf(wk, pool)[1].storage[1].storageSize # Nil

\* the storage class of the volume type of the pool's volume in the catalog
VolumeClassOf(wk, pool) ==
    FirstNamed(wk.cluster.cloudProfile.volumeTypes, pool.volume[1].type[1])[1].class

MissingRootVolume == "missing volume in worker pool and storage in machine type"

\* C16: the root volume of every class of a pool that declares a volume has
\* the storage class of the pool's volume type and the pool's volume size,
\* whatever storage the machine type has; that of a pool without a volume has
\* class and size of the machine type's storage; a run fails for lack of a
\* root volume only if a pool has no volume and its machine type no storage
\* with a size, and no run succeeds for such a pool.
C16_RootVolume ==
    /\ Generated =>
          \A p \in 1..Len(worker.pools) :
              LET pool == worker.pools[p]
                  classes == ClassesOf(w, worker.pools, p)
              IN  /\ pool.volume # Nil \/ HasStorage(worker, pool)
                  /\ \A z \in 1..Len(classes) :
                        LET pvc == classes[z].rootVolume.pvc[1]
                        IN  IF pool.volume # Nil
                            THEN /\ pvc.storageClassName = Ptr(VolumeClassOf(worker, pool))
                                 /\ pvc.requests.storage = pool.volume[1].size
                            ELSE /\ pvc.storageClassName = Ptr(MachineTypeOf(worker, pool)[1].storage[1].class)
                                 /\ pvc.requests.storage = MachineTypeOf(worker, pool)[1].storage[1].storageSize[1]
    /\ (last.generated /\ last.err = MissingRootVolume) =>
          \E p \in 1..Len(worker.pools) :
              worker.pools[p].volume = Nil /\ ~HasStorage(worker, worker.pools[p])

\* results for a pool with a volume whose machine type has storage, and for a
\* pool without a volume, each with a zone
C16_Witness ==
    /\ Generated
    /\ \E p \in 1..Len(worker.pools) :
          /\ worker.pools[p].volume # Nil
          /\ HasStorage(worker, worker.pools[p])
          /\ worker.pools[p].zones # <<>>
          /\ ClassesOf(w, worker.pools, p)[1].rootVolume.pvc[1].storageClassName = Ptr("standard-class")
    /\ \E p \in 1..Len(worker.pools) :
          /\ worker.pools[p].volume = Nil
          /\ worker.pools[p].zones # <<>>
          /\ ClassesOf(w, worker.pools, p)[1].rootVolume.pvc[1].storageClassName = Ptr("local")

-----------------------------------------------------------------------------
(* C17: optional payloads *)

\* there is no payload: no section, or a section without raw bytes
Absent(section) == section = Nil \/ section[1].raw = Nil

\* the shoots a validation request decodes
ShootsOf == {req.new[1]} \cup (IF req.old = Nil THEN {} ELSE {req.old[1]})

ProfileFound == req.new[1].cloudProfileName \in DOMAIN req.env.cloudProfiles

ProfileSection == req.env.cloudProfiles[req.new[1].cloudProfileName].providerConfig

ContextErrorsOfShoot ==
    {"could not decode infrastructureConfig of shoot", "could not decode controlPlaneConfig of shoot",
     "could not decode providerConfig of worker"}

ContextErrorsOfProfile ==
    {"missing providerConfig in cloud profile", "could not decode providerConfig of cloud profile"}

\* an extractor called on an object without payload returns the zero value
ExtractorsOptional ==
    (req.extractor # "none" /\ Absent(req.section)) =>
        last.err = NoErr /\ last.returned = Ptr(ZeroOf(req.extractor))

\* the sections of the shoot without payload are no error of the validation
\* context, and are the zero value in the context that is built
ShootSectionsOptional ==
    req.new # Nil =>
        /\ (\A sh \in ShootsOf : Absent(sh.infrastructureConfig)) =>
              /\ resp.err # "could not decode infrastructureConfig of shoot"
              /\ resp.context # Nil => resp.context[1].infrastructureConfig = InfrastructureConfigZero
        /\ (\A sh \in ShootsOf : Absent(sh.controlPlaneConfig)) =>
              /\ resp.err # "could not decode controlPlaneConfig of shoot"
              /\ resp.context # Nil => resp.context[1].controlPlaneConfig = ControlPlaneConfigZero
        /\ (\A sh \in ShootsOf : \A i \in 1..Len(sh.workers) : Absent(sh.workers[i].providerConfig)) =>
              resp.err # "could not decode providerConfig of worker"
        /\ resp.context # Nil =>
              \A i \in 1..Len(req.new[1].workers) :
                  Absent(req.new[1].workers[i].providerConfig) =>
                      resp.context[1].workerConfigsContexts[i].workerConfig = WorkerConfigZero

\* C17 as stated: every provider config section is optional; without payload
\* the extractors return the zero value and no error, and so does every
\* section that newValidationContext assembles, the cloud profile's included.
C17_Original ==
    /\ ExtractorsOptional
    /\ ShootSectionsOptional
    /\ (req.new # Nil /\ ProfileFound /\ Absent(ProfileSection)) =>
          /\ resp.err \notin ContextErrorsOfProfile
          /\ resp.context # Nil => resp.context[1].cloudProfileConfig = CloudProfileConfigZero

\* C17: without payload (no section, or no raw bytes) the six extractors
\* return the zero value and no error, and newValidationContext takes the zero
\* value for the infrastructure, control plane and worker config of the shoot;
\* a cloud profile without provider config is an error of newValidationContext,
\* one whose provider config has no raw bytes gives the zero value.
C17_OptionalPayloads ==
    /\ ExtractorsOptional
    /\ ShootSectionsOptional
    /\ (req.new # Nil /\ ProfileFound /\ ProfileSection = Nil) =>
          /\ resp.context = Nil
          /\ resp.err \in ContextErrorsOfShoot \cup {"missing providerConfig in cloud profile"}
          /\ (\A sh \in ShootsOf :
                /\ Absent(sh.infrastructureConfig)
                /\ Absent(sh.controlPlaneConfig)
                /\ \A i \in 1..Len(sh.workers) : Absent(sh.workers[i].providerConfig)) =>
                resp.err = "missing providerConfig in cloud profile"
    /\ (req.new # Nil /\ ProfileFound /\ ProfileSection # Nil /\ Absent(ProfileSection)) =>
          /\ resp.err \notin ContextErrorsOfProfile
          /\ resp.context # Nil => resp.context[1].cloudProfileConfig = CloudProfileConfigZero

\* the infrastructure config extractor was called on a provider config
\* without raw bytes and returned the zero value
C17_Witness ==
    /\ req.extractor = "GetInfrastructureConfig"
    /\ req.section = Ptr([raw |-> Nil])
    /\ last.err = NoErr
    /\ last.returned = Ptr(InfrastructureConfigZero)

-----------------------------------------------------------------------------
(* C18: referential integrity of the results *)

\* the number of (pool, zone) pairs of the worker
ZoneSum(wk) == SumSeq([p \in 1..Len(wk.pools) |-> Len(wk.pools[p].zones)])

\* C18: after a successful run the machine class list and the machine
\* deployment list have the same length, the sum over the pools of the number
\* of their zones, and the k-th deployment's ClassName is the name of the
\* k-th machine class.
C18_ReferentialIntegrity ==
    Generated =>
        /\ Len(w.machineClasses) = ZoneSum(worker)
        /\ Len(w.machineDeployments) = ZoneSum(worker)
        /\ \A k \in 1..Len(w.machineDeployments) :
              w.machineDeployments[k].className = w.machineClasses[k].name

\* results for two pools with two zones each: four classes, the last
\* deployment naming the last class
C18_Witness ==
    /\ Generated
    /\ Len(worker.pools) = 2
    /\ Len(worker.pools[1].zones) = 2
    /\ Len(worker.pools[2].zones) = 2
    /\ Len(w.machineClasses) = 4
    /\ w.machineDeployments[4].className = w.machineClasses[4].name
    /\ w.machineClasses[4].name # w.machineClasses[3].name

-----------------------------------------------------------------------------
(* C19: generate, then reuse *)

EntryPoints == {"DeployMachineClasses", "GenerateMachineDeployments"}

\* C19 as stated: once generateMachineConfig has succeeded on the delegate, no
\* later call of DeployMachineClasses or GenerateMachineDeployments generates
\* again, whatever the worker, one without pools or without zones included.
C19_Original ==
    [][(Generated /\ last'.op \in EntryPoints) => ~last'.generated]_vars

-----------------------------------------------------------------------------
(* C20: the steps of DeployMachineClasses *)

Deployed == last.op = "DeployMachineClasses"

\* C20: DeployMachineClasses generates if needed, then applies the chart,
\* then creates or updates the data volumes: a call whose generation fails
\* applies no chart and asks for no data volume, a call whose chart apply fails
\* asks for no data volume, a call that fails for a data volume returns that
\* error and asks for no further one, and a call returns nil only if the
\* chart was applied and every entry of machineClassVolumes was created or
\* updated.
C20_StepOrder ==
    Deployed =>
        /\ seed.at = "generate" =>
              last.generated /\ last.err # NoErr /\ ~seed.applied /\ seed.attempts = <<>>
        /\ seed.at = "apply" =>
              /\ last.err = "could not apply machine-class chart"
              /\ ~seed.applied /\ seed.chart = Nil /\ seed.attempts = <<>>
        /\ seed.attempts # <<>> => seed.applied
        /\ seed.failed # Nil =>
              /\ last.err = "could not create or update data volume"
              /\ seed.attempts[Len(seed.attempts)] = seed.failed[1]
              /\ \A i \in 1..(Len(seed.attempts) - 1) : seed.attempts[i] \in DOMAIN seed.dataVolumes
              /\ seed.failed[1] \notin DOMAIN seed.dataVolumes
        /\ last.err = NoErr =>
              /\ seed.applied
              /\ seed.chart = Ptr([machineClasses |-> w.machineClasses])
              /\ Range(seed.attempts) = DOMAIN w.machineClassVolumes
              /\ seed.dataVolumes = w.machineClassVolumes

\* a call applied the chart, created a data volume, failed for a second one
\* and left a third one alone
C20_Witness ==
    /\ Deployed
    /\ seed.applied
    /\ Len(seed.attempts) = 2
    /\ seed.failed = Ptr(seed.attempts[2])
    /\ DOMAIN seed.dataVolumes = {seed.attempts[1]}
    /\ Cardinality(DOMAIN w.machineClassVolumes) >= 3

-----------------------------------------------------------------------------
(* C21: distinct names *)

\* the characters of a string
Chars(str) ==
    CASE str = "a" -> <<"a">>
      [] str = "a-z1" -> <<"a", "-", "z", "1">>
      [] str = "a-z1-z1" -> <<"a", "-", "z", "1", "-", "z", "1">>
      [] OTHER -> <<str>>

\* %d of a natural number
RECURSIVE Digits(_)
Digits(n) ==
    LET digit == <<"0", "1", "2", "3", "4", "5", "6", "7", "8", "9">>
    IN  IF n < 10 THEN <<digit[n + 1]>> ELSE Digits(n \div 10) \o <<digit[(n % 10) + 1]>>

\* fmt.Sprintf("%s-%s-z%d", ...) of the arguments of a deployment name
DeploymentString(name) ==
    Chars(name[1]) \o <<"-">> \o Chars(name[2]) \o <<"-", name[3]>> \o Digits(name[4])

\* fmt.Sprintf("%s-%s", deploymentName, workerPoolHash) of a class name; the
\* hash is one word without a dash
ClassString(name) == DeploymentString(name[1]) \o <<"-", name[2]>>

DistinctPoolNames(wk) ==
    \A p, q \in 1..Len(wk.pools) : wk.pools[p].name = wk.pools[q].name => p = q

\* the pool creates the root volumes of its machines from a machine class volume
PreAllocated(pool) == ~GetWorkerConfig(pool).config[1].disablePreAllocatedDataVolumes

\* the number of (pool, zone) pairs whose pool pre-allocates
PreAllocatedPairs(wk) ==
    SumSeq([p \in 1..Len(wk.pools) |->
               IF PreAllocated(wk.pools[p]) THEN Len(wk.pools[p].zones) ELSE 0])

\* the elements of a sequence are pairwise distinct
Distinct(seq) == \A i, j \in 1..Len(seq) : seq[i] = seq[j] => i = j

\* C21: after a successful run for a worker whose pools have pairwise
\* distinct names, the machine class names are pairwise distinct and so are
\* the machine deployment names, and machineClassVolumes has one key for each
\* (pool, zone) pair of a pool that pre-allocates.
C21_DistinctNames ==
    (Generated /\ DistinctPoolNames(worker)) =>
        /\ Distinct([k \in 1..Len(w.machineClasses) |-> ClassString(w.machineClasses[k].name)])
        /\ Distinct([k \in 1..Len(w.machineDeployments) |->
                        DeploymentString(w.machineDeployments[k].name)])
        /\ Cardinality({ClassString(name) : name \in DOMAIN w.machineClassVolumes})
              = PreAllocatedPairs(worker)
        /\ Cardinality(DOMAIN w.machineClassVolumes) = PreAllocatedPairs(worker)

\* results for a pool "a" and a pool "a-z1" with two zones each, both
\* pre-allocating: four keys
C21_Witness ==
    /\ Generated
    /\ Len(worker.pools) = 2
    /\ worker.pools[1].name = "a" /\ Len(worker.pools[1].zones) = 2
    /\ worker.pools[2].name = "a-z1" /\ Len(worker.pools[2].zones) = 2
    /\ PreAllocatedPairs(worker) = 4
    /\ Cardinality(DOMAIN w.machineClassVolumes) = 4

====
